---------------------------- MODULE Spec2Model ----------------------------
(***************************************************************************)
(* The agent execution engine of go-agents: ChatAgent.Run (the bounded     *)
(* reason-act loop) and ChatAgent.RunStream (the streaming path), modelled *)
(* from src/agent/core/runner.go together with the collaborators they      *)
(* call (memory store, tool registry, middleware chain, LM client).        *)
(***************************************************************************)
EXTENDS Integers, Sequences, FiniteSets, TLC

(***************************************************************************)
(* Bounds of the model.                                                    *)
(***************************************************************************)
\* largest configured max_iterations that is explored (0 is explored too)
MaxIter == 2
\* largest number of tool calls one LM response carries
MaxToolCalls == 2
\* largest number of tool calls the LM requests over one run
MaxRunCalls == 3
\* number of Runs that share one memory store
NumRuns == 2
\* largest number of agents handed to a supervisor policy
MaxAgents == 2
\* number of middlewares registered on the agent
NumMW == 2
\* largest number of chunks the LM provider streams
MaxChunks == 2

VARIABLES
    cfg,        \* the agent's configuration and bound collaborators
    mem,        \* the value stored under "conversation"
    mem0,       \* the value stored under "conversation" when the run started
    pc,         \* position of Run / RunStream
    messages,   \* Run/RunStream: the local []llm.Message
    iter,       \* Run: loop variable
    finalResp,  \* Run: the last LM response (NoResp when nil)
    asked,      \* Run: number of tool calls the LM has requested so far
    tcIdx,      \* Run: index of the tool call being dispatched
    mwIdx,      \* index of the next middleware whose hook is invoked
    toolIn,     \* Run: inputStr of the tool call being dispatched
    toolOut,    \* Run: result of the tool call being dispatched
    result,     \* Run: the Message returned
    err,        \* the error returned ("nil" when none)
    events,     \* the calls made so far to collaborators, in order
    ctxDone,    \* RunStream: ctx has been cancelled
    wpc,        \* RunStream: position of the worker goroutine / provider
    prov,       \* RunStream: the behaviour of the LM provider's Stream
    wres,       \* RunStream: what the provider's Stream returned
    sent,       \* RunStream: number of chunks the provider has handed over
    innerClosed,\* RunStream: the provider closed the inner channel
    errCh,      \* RunStream: content of the buffered error channel
    buffer,     \* RunStream: the aggregated content
    sinkCap,    \* RunStream: capacity of the output sink
    sinkQ,      \* RunStream: messages buffered in the sink
    consWaiting,\* RunStream: the sink's consumer is blocked in a receive
    accepted,   \* RunStream: every message the sink accepted, in order
    sinkCloses, \* RunStream: number of times the sink was closed
    sentAfterClose, \* RunStream: a send was attempted on the closed sink
    rpc,        \* concurrent Runs: position of each run
    existing,   \* concurrent Runs: the value each run's last Retrieve returned
    rerr,       \* concurrent Runs: the error each run returned
    agents,     \* FanOutFirst: for each agent, whether its Run succeeds
    wstate,     \* FanOutFirst: position of each worker goroutine
    ch,         \* FanOutFirst: the buffered result channel
    recvd,      \* FanOutFirst: loop variable i of the receive loop
    lastErr,    \* FanOutFirst: the last error received
    fpc,        \* FanOutFirst: position of Execute
    fret,       \* FanOutFirst: what Execute returned
    seqAgents,  \* SequentialPolicy: the agents handed to Execute
    seqInput,   \* SequentialPolicy: the local variable input
    seqRuns,    \* SequentialPolicy: the Run calls made so far, in order
    seqRet,     \* SequentialPolicy: what Execute returned
    maxChars,   \* TokenLimiter: the field MaxChars
    hist,       \* TokenLimiter: the history handed to Process
    trimmed,    \* TokenLimiter: what Process returned
    guard,      \* SimpleGuardrails: the fields of the guardrail
    greq0,      \* SimpleGuardrails: the request before the first call
    greq,       \* SimpleGuardrails: the request, modified in place
    gret,       \* SimpleGuardrails: what each BeforeLLMCall so far returned
    regTools,   \* DefaultRegistry: the map tools, name to tool
    regMu,      \* DefaultRegistry: the goroutine holding mu (0 when free)
    regG,       \* DefaultRegistry: each goroutine calling Register
    http,       \* Server.streamHandler: the handler, its request and its agent
    retry,      \* llm.Execute: the retrier, the loop and the attempts made
    conv,       \* ConversationStore: data, mu and the goroutines using it
    sess        \* consecutive Runs of one agent with guardrails on one store

runVars == <<messages, iter, finalResp, tcIdx, mwIdx, toolIn, toolOut, result>>
streamVars == <<ctxDone, wpc, prov, wres, sent, innerClosed, errCh, buffer, sinkCap,
                sinkQ, consWaiting, accepted, sinkCloses, sentAfterClose>>
sharedVars == <<rpc, existing, rerr>>
fanVars == <<agents, wstate, ch, recvd, lastErr, fpc, fret>>
seqVars == <<seqAgents, seqInput, seqRuns, seqRet>>
limVars == <<maxChars, hist, trimmed>>
guardVars == <<guard, greq0, greq, gret>>
regVars == <<regTools, regMu, regG>>
extVars == <<http, retry, conv, sess>>
libVars == <<seqVars, limVars, guardVars, regVars, extVars>>
\* what Run and RunStream of the single agent leave alone
auxVars == <<sharedVars, fanVars, libVars>>
vars == <<cfg, mem, mem0, pc, messages, iter, finalResp, asked, tcIdx, mwIdx, toolIn,
          toolOut, result, err, events, ctxDone, wpc, prov, wres, sent,
          innerClosed,
          errCh, buffer, sinkCap, sinkQ, consWaiting, accepted, sinkCloses,
          sentAfterClose, sharedVars, fanVars, libVars>>

\* no concurrent runs and no supervisor policy are in progress
SharedIdle == rpc = <<>> /\ existing = <<>> /\ rerr = <<>>
FanIdle ==
    /\ agents = <<>> /\ wstate = <<>> /\ ch = <<>> /\ recvd = 0
    /\ lastErr = "nil" /\ fpc = "idle" /\ fret = [s |-> "", err |-> "nil"]
\* no library part other than the one named is in use
LibIdle(part) ==
    /\ part # "Sequential" =>
        /\ seqAgents = <<>> /\ seqInput = "" /\ seqRuns = <<>>
        /\ seqRet = [done |-> FALSE, s |-> "", err |-> "nil"]
    /\ part # "TokenLimiter" =>
        maxChars = 0 /\ hist = <<>> /\ trimmed = [done |-> FALSE, msgs |-> <<>>]
    /\ part # "Guardrails" =>
        /\ guard = [MaxInputChars |-> 0, DenySubstrings |-> <<>>,
                    AllowSubstrings |-> <<>>]
        /\ greq0 = <<>> /\ greq = <<>> /\ gret = <<>>
    /\ part # "Registry" => regTools = <<>> /\ regMu = 0 /\ regG = <<>>
    /\ part # "Server" => http = <<>>
    /\ part # "Retrier" => retry = <<>>
    /\ part # "ConversationStore" => conv = <<>>
    /\ part # "Session" => sess = <<>>
AuxIdle == SharedIdle /\ FanIdle /\ LibIdle("")

(***************************************************************************)
(* Messages, tool calls, LM responses.                                     *)
(***************************************************************************)
\* core.Message (Meta only matters on the streaming path)
Message(role, content) == [role |-> role, content |-> content]

\* llm.Message
LLMMessage(role, content, id) == [role |-> role, content |-> content, id |-> id]

\* the input message handed to Run / RunStream
Input == Message("user", "hi")

\* the system prompt of the configuration
SystemPrompt == "sys"

\* the nil *llm.Response
NoResp == [content |-> "", toolCalls |-> <<>>, nil |-> TRUE]

\* names of the tools the registry holds when one is bound
Registered == {"echo"}

\* Function.Arguments: a JSON object with a string field "input", or any
\* other text
ArgJSON == [text |-> "{\"input\":\"ok\"}", hasInput |-> TRUE, input |-> "ok"]
ArgRaw == [text |-> "plain", hasInput |-> FALSE, input |-> ""]

\* the tool calls an LM may request: a registered tool with either argument
\* shape, or a tool the registry does not hold
ToolCallChoices ==
    { [name |-> "echo", args |-> ArgJSON],
      [name |-> "echo", args |-> ArgRaw],
      [name |-> "ghost", args |-> ArgRaw] }

ToolCallID(n, j) == "call-" \o ToString(n) \o "-" \o ToString(j)

\* the responses the LM may give to its n-th Chat call, carrying at most
\* left tool calls
Responses(n, left) ==
    UNION { { [content |-> "r" \o ToString(n),
               toolCalls |-> [j \in 1..k |->
                   [id |-> ToolCallID(n, j), name |-> c[j].name, args |-> c[j].args]],
               nil |-> FALSE] : c \in [1..k -> ToolCallChoices] }
            : k \in 0..(IF left < MaxToolCalls THEN left ELSE MaxToolCalls) }


(***************************************************************************)
(* Collaborators.                                                          *)
(***************************************************************************)
\* one recorded call to a collaborator: the operation, the index of the
\* middleware or LM call it concerns, whether it returned no error, and
\* what it carried
Ev(op, i, ok, data) == [op |-> op, i |-> i, ok |-> ok, data |-> data]

\* memory.Store.Retrieve(ctx, "conversation") returns no error
RetrieveOK(m) == m.kind # "absent"

\* the value is a []Message
IsSlice(m) == m.kind = "list"

\* the value Store(ctx, "conversation", append(msgs, x)) / []Message{x} writes
Appended(m, x) == [kind |-> "list", msgs |-> Append(m.msgs, x)]
Fresh(x) == [kind |-> "list", msgs |-> <<x>>]

ToolFoundAny(name) == TRUE

\* tools.Registry.Get(name)
ToolFound(name) == name \in Registered

\* inputStr: the "input" field of a JSON object argument, else the raw text
ParseArgs(args) == IF args.hasInput THEN args.input ELSE args.text

\* EchoTool.Execute, and the text written for a failed execution
EchoExecute(input) == "ECHO:" \o input
ToolErrorText == "boom"
ErrorResultUnprefixed == ToolErrorText
ErrorResult == "error: " \o ToolErrorText

(***************************************************************************)
(* ChatAgent.Run                                                           *)
(***************************************************************************)
\* return (Message{}, e) / (result, nil)
Return(e) ==
    /\ pc' = "done"
    /\ err' = e

\* time.ParseDuration(a.Config.Timeout)
ParseTimeoutIgnored ==
    /\ pc = "start"
    /\ pc' = "storeInput"
    /\ UNCHANGED <<auxVars, cfg, asked, mem, mem0, runVars, err, events, streamVars>>

ParseTimeout ==
    /\ pc = "start"
    /\ IF cfg.timeout = "bad"
       THEN Return("config")
       ELSE pc' = "storeInput" /\ UNCHANGED err
    /\ UNCHANGED <<auxVars, cfg, asked, mem, mem0, runVars, events, streamVars>>

\* a failed Store of the input is returned unless the stored value was not
\* a []Message, where the error is dropped
InputStoreFatal(m, ok) == ~ok /\ ~(RetrieveOK(m) /\ ~IsSlice(m))

InputValue(m) == IF RetrieveOK(m) /\ IsSlice(m) THEN Appended(m, Input) ELSE Fresh(Input)

\* "Store input message in memory"
StoreInput ==
    /\ pc = "storeInput"
    /\ IF ~cfg.hasMem
       THEN pc' = "build" /\ UNCHANGED <<mem, err, events>>
       ELSE \E ok \in BOOLEAN :
            /\ mem' = IF ok THEN InputValue(mem) ELSE mem
            /\ events' = Append(events, Ev("store", 0, ok, "input"))
            /\ IF InputStoreFatal(mem, ok)
               THEN Return("memory")
               ELSE pc' = "build" /\ UNCHANGED err
    /\ UNCHANGED <<auxVars, cfg, asked, mem0, runVars, streamVars>>

\* "Get conversation history": a []Message, a promoted single Message, or nil
History(m) == IF cfg.hasMem /\ RetrieveOK(m) THEN m.msgs ELSE <<>>

\* "Prepare messages for LLM": system prompt, history, current input (the
\* agent has no memory processors registered)
Assemble(history) ==
    <<LLMMessage("system", SystemPrompt, "")>>
    \o [k \in 1..Len(history) |-> LLMMessage(history[k].role, history[k].content, "")]
    \o <<LLMMessage(Input.role, Input.content, "")>>

BuildMessages ==
    /\ pc = "build"
    /\ messages' = Assemble(History(mem))
    /\ iter' = 0
    /\ pc' = "loop"
    /\ UNCHANGED <<auxVars, cfg, asked, mem, mem0, finalResp, tcIdx, mwIdx, toolIn, toolOut,
                   result, err, events, streamVars>>

MaxIterationsNotNormalised == cfg.maxIter

\* maxIterations after "if maxIterations <= 0 { maxIterations = 1 }"
MaxIterations == IF cfg.maxIter <= 0 THEN 1 ELSE cfg.maxIter

LoopCondOffByOne(i) == i <= MaxIterations

\* the loop condition "iter < maxIterations"
LoopCond(i) == i < MaxIterations

LoopHead ==
    /\ pc = "loop"
    /\ IF LoopCond(iter)
       THEN pc' = "beforeLLM" /\ mwIdx' = 1
       ELSE pc' = "afterLoop" /\ UNCHANGED mwIdx
    /\ UNCHANGED <<auxVars, cfg, asked, mem, mem0, messages, iter, finalResp, tcIdx, toolIn,
                   toolOut, result, err, events, streamVars>>

\* number of Chat calls made so far
NumChats == Cardinality({k \in 1..Len(events) : events[k].op = "chat"})

\* variant: the error of a before-LM hook is dropped
BeforeLLMCallErrorDropped ==
    /\ pc = "beforeLLM"
    /\ mwIdx <= NumMW
    /\ \E ok \in BOOLEAN :
        events' = Append(events, Ev("beforeLLM", mwIdx, ok, ""))
    /\ mwIdx' = mwIdx + 1
    /\ UNCHANGED <<auxVars, cfg, asked, mem, mem0, pc, messages, iter, finalResp, tcIdx,
                   toolIn, toolOut, result, err, streamVars>>

\* "Middleware: before LLM"
BeforeLLMCall ==
    /\ pc = "beforeLLM"
    /\ mwIdx <= NumMW
    /\ \E ok \in BOOLEAN :
        /\ events' = Append(events, Ev("beforeLLM", mwIdx, ok, ""))
        /\ IF ok
           THEN mwIdx' = mwIdx + 1 /\ UNCHANGED <<pc, err>>
           ELSE Return("middleware") /\ UNCHANGED mwIdx
    /\ UNCHANGED <<auxVars, cfg, asked, mem, mem0, messages, iter, finalResp, tcIdx, toolIn,
                   toolOut, result, streamVars>>

\* a.Model.Chat(ctx, req)
Chat ==
    /\ pc = "beforeLLM"
    /\ mwIdx > NumMW
    /\ \/ /\ events' = Append(events, Ev("chat", NumChats + 1, FALSE,
                                      [req |-> messages, resp |-> NoResp]))
          /\ Return("llm")
          /\ UNCHANGED <<finalResp, mwIdx, asked>>
       \/ \E r \in Responses(NumChats + 1, MaxRunCalls - asked) :
          /\ events' = Append(events, Ev("chat", NumChats + 1, TRUE,
                                      [req |-> messages, resp |-> r]))
          /\ finalResp' = r
          /\ asked' = asked + Len(r.toolCalls)
          /\ pc' = "afterLLM"
          /\ mwIdx' = 1
          /\ UNCHANGED err
    /\ UNCHANGED <<auxVars, cfg, mem, mem0, messages, iter, tcIdx, toolIn, toolOut,
                   result, streamVars>>

\* "Middleware: after LLM"
AfterLLMResponse ==
    /\ pc = "afterLLM"
    /\ mwIdx <= NumMW
    /\ \E ok \in BOOLEAN :
        /\ events' = Append(events, Ev("afterLLM", mwIdx, ok, ""))
        /\ IF ok
           THEN mwIdx' = mwIdx + 1 /\ UNCHANGED <<pc, err>>
           ELSE Return("middleware") /\ UNCHANGED mwIdx
    /\ UNCHANGED <<auxVars, cfg, asked, mem, mem0, messages, iter, finalResp, tcIdx, toolIn,
                   toolOut, result, streamVars>>

WantsToolsNever(r) == FALSE

\* "len(response.ToolCalls) > 0 && a.Tools != nil"
WantsTools(r) == Len(r.toolCalls) > 0 /\ cfg.hasTools

AssistantTurnAsUser(r) == LLMMessage("user", r.content, "")

\* llm.Message{Role: "assistant", Content: response.Content}
AssistantTurn(r) == LLMMessage("assistant", r.content, "")

\* the branch after the after-LLM hooks: append the assistant turn and
\* dispatch, or break
Branch ==
    /\ pc = "afterLLM"
    /\ mwIdx > NumMW
    /\ IF WantsTools(finalResp)
       THEN /\ messages' = Append(messages, AssistantTurn(finalResp))
            /\ tcIdx' = 1
            /\ pc' = "tool"
       ELSE /\ pc' = "afterLoop"
            /\ UNCHANGED <<messages, tcIdx>>
    /\ UNCHANGED <<auxVars, cfg, asked, mem, mem0, iter, finalResp, mwIdx, toolIn, toolOut,
                   result, err, events, streamVars>>

\* "Resolve tool" and "Parse arguments", or "continue" after the last call
ResolveTool ==
    /\ pc = "tool"
    /\ IF tcIdx > Len(finalResp.toolCalls)
       THEN /\ iter' = iter + 1
            /\ pc' = "loop"
            /\ UNCHANGED <<tcIdx, toolIn, mwIdx, events>>
       ELSE LET tc == finalResp.toolCalls[tcIdx] IN
            IF ~ToolFound(tc.name)
            THEN /\ events' = Append(events, Ev("notfound", 0, TRUE, tc.id))
                 /\ tcIdx' = tcIdx + 1
                 /\ UNCHANGED <<iter, pc, toolIn, mwIdx>>
            ELSE /\ toolIn' = ParseArgs(tc.args)
                 /\ mwIdx' = 1
                 /\ pc' = "beforeTool"
                 /\ UNCHANGED <<iter, tcIdx, events>>
    /\ UNCHANGED <<auxVars, cfg, asked, mem, mem0, messages, finalResp, toolOut, result, err,
                   streamVars>>

\* "Middleware: before tool"
BeforeToolExecute ==
    /\ pc = "beforeTool"
    /\ mwIdx <= NumMW
    /\ \E ok \in BOOLEAN :
        /\ events' = Append(events,
                        Ev("beforeTool", mwIdx, ok, finalResp.toolCalls[tcIdx].id))
        /\ IF ok
           THEN mwIdx' = mwIdx + 1 /\ UNCHANGED <<pc, err>>
           ELSE Return("middleware") /\ UNCHANGED mwIdx
    /\ UNCHANGED <<auxVars, cfg, asked, mem, mem0, messages, iter, finalResp, tcIdx, toolIn,
                   toolOut, result, streamVars>>

\* a.Tools.Execute(ctx, tool.Name(), inputStr); an error becomes the content
ExecuteTool ==
    /\ pc = "beforeTool"
    /\ mwIdx > NumMW
    /\ \E ok \in BOOLEAN :
        /\ toolOut' = IF ok THEN EchoExecute(toolIn) ELSE ErrorResult
        /\ events' = Append(events, Ev("exec", iter + 1, ok,
                        [id |-> finalResp.toolCalls[tcIdx].id, out |-> toolOut']))
    /\ mwIdx' = 1
    /\ pc' = "afterTool"
    /\ UNCHANGED <<auxVars, cfg, asked, mem, mem0, messages, iter, finalResp, tcIdx, toolIn,
                   result, err, streamVars>>

\* "Middleware: after tool" (the hook's error is dropped)
AfterToolExecute ==
    /\ pc = "afterTool"
    /\ mwIdx <= NumMW
    /\ events' = Append(events, Ev("afterTool", mwIdx, TRUE, finalResp.toolCalls[tcIdx].id))
    /\ mwIdx' = mwIdx + 1
    /\ UNCHANGED <<auxVars, cfg, asked, mem, mem0, pc, messages, iter, finalResp, tcIdx, toolIn,
                   toolOut, result, err, streamVars>>

ToolMessageWithoutID(content, id) == LLMMessage("tool", content, "")

\* llm.Message{Role: "tool", Content: result, ToolCallID: tc.ID}
ToolMessage(content, id) == LLMMessage("tool", content, id)

\* variant: the tool's result is not appended to the messages
AppendToolResultDropped ==
    /\ pc = "afterTool"
    /\ mwIdx > NumMW
    /\ tcIdx' = tcIdx + 1
    /\ pc' = "tool"
    /\ UNCHANGED <<auxVars, cfg, asked, mem, mem0, messages, iter, finalResp, mwIdx, toolIn,
                   toolOut, result, err, events, streamVars>>

\* "Append tool result message"
AppendToolResult ==
    /\ pc = "afterTool"
    /\ mwIdx > NumMW
    /\ messages' = Append(messages, ToolMessage(toolOut, finalResp.toolCalls[tcIdx].id))
    /\ tcIdx' = tcIdx + 1
    /\ pc' = "tool"
    /\ UNCHANGED <<auxVars, cfg, asked, mem, mem0, iter, finalResp, mwIdx, toolIn, toolOut,
                   result, err, events, streamVars>>

\* variant: the result is returned without being stored first
AfterLoopNoStore ==
    /\ pc = "afterLoop"
    /\ IF finalResp.nil
       THEN Return("noresponse") /\ UNCHANGED <<result, mwIdx>>
       ELSE /\ result' = Message("assistant", finalResp.content)
            /\ pc' = "afterRun"
            /\ mwIdx' = 1
            /\ UNCHANGED err
    /\ UNCHANGED <<auxVars, cfg, asked, mem, mem0, messages, iter, finalResp, tcIdx,
                   toolIn, toolOut, events, streamVars>>

\* "Fallback if finalResp is nil", else the result Message
AfterLoop ==
    /\ pc = "afterLoop"
    /\ IF finalResp.nil
       THEN Return("noresponse") /\ UNCHANGED result
       ELSE /\ result' = Message("assistant", finalResp.content)
            /\ pc' = "storeResp"
            /\ UNCHANGED err
    /\ UNCHANGED <<auxVars, cfg, asked, mem, mem0, messages, iter, finalResp, tcIdx, mwIdx,
                   toolIn, toolOut, events, streamVars>>

ResponseValue(m, x) == IF RetrieveOK(m) /\ IsSlice(m) THEN Appended(m, x) ELSE Fresh(x)

\* "Store response in memory": every failed Store is returned
StoreResponse ==
    /\ pc = "storeResp"
    /\ IF ~cfg.hasMem
       THEN pc' = "afterRun" /\ UNCHANGED <<mem, err, events>>
       ELSE \E ok \in BOOLEAN :
            /\ mem' = IF ok THEN ResponseValue(mem, result) ELSE mem
            /\ events' = Append(events, Ev("store", 0, ok, "final"))
            /\ IF ok THEN pc' = "afterRun" /\ UNCHANGED err ELSE Return("memory")
    /\ mwIdx' = 1
    /\ UNCHANGED <<auxVars, cfg, asked, mem0, messages, iter, finalResp, tcIdx, toolIn, toolOut,
                   result, streamVars>>

\* "Middleware: after run" (the hook's error is dropped)
AfterRun ==
    /\ pc = "afterRun"
    /\ mwIdx <= NumMW
    /\ events' = Append(events, Ev("afterRun", mwIdx, TRUE, ""))
    /\ mwIdx' = mwIdx + 1
    /\ UNCHANGED <<auxVars, cfg, asked, mem, mem0, pc, messages, iter, finalResp, tcIdx, toolIn,
                   toolOut, result, err, streamVars>>

\* return result, nil
ReturnResult ==
    /\ pc = "afterRun"
    /\ mwIdx > NumMW
    /\ Return("nil")
    /\ events' = Append(events, Ev("return", 0, TRUE, ""))
    /\ UNCHANGED <<auxVars, cfg, asked, mem, mem0, runVars, streamVars>>

\* the values found under "conversation" when a run starts
OldUser == Message("user", "old")
OldAssistant == Message("assistant", "oldreply")
InitialLogs ==
    { [kind |-> "absent", msgs |-> <<>>],
      [kind |-> "list", msgs |-> <<OldUser, OldAssistant>>],
      [kind |-> "single", msgs |-> <<OldUser>>] }

Configs ==
    [mode : {"Run"}, maxIter : 0..MaxIter, timeout : {"", "30s", "bad"},
     hasMem : BOOLEAN, hasTools : BOOLEAN]

StreamIdle ==
    /\ ctxDone = FALSE
    /\ wpc = "idle"
    /\ prov = [chunks |-> <<>>, closes |-> FALSE, fails |-> FALSE, ctxAware |-> FALSE]
    /\ wres = "none"
    /\ sent = 0
    /\ innerClosed = FALSE
    /\ errCh = "empty"
    /\ buffer = ""
    /\ sinkCap = 0
    /\ sinkQ = <<>>
    /\ consWaiting = FALSE
    /\ accepted = <<>>
    /\ sinkCloses = 0
    /\ sentAfterClose = FALSE

Init ==
    /\ cfg \in Configs
    /\ mem \in IF cfg.hasMem THEN InitialLogs ELSE {[kind |-> "absent", msgs |-> <<>>]}
    /\ mem0 = mem
    /\ pc = "start"
    /\ messages = <<>>
    /\ iter = 0
    /\ finalResp = NoResp
    /\ asked = 0
    /\ tcIdx = 0
    /\ mwIdx = 0
    /\ toolIn = ""
    /\ toolOut = ""
    /\ result = Message("", "")
    /\ err = "nil"
    /\ events = <<>>
    /\ StreamIdle
    /\ AuxIdle

Next ==
    \/ ParseTimeout
    \/ StoreInput
    \/ BuildMessages
    \/ LoopHead
    \/ BeforeLLMCall
    \/ Chat
    \/ AfterLLMResponse
    \/ Branch
    \/ ResolveTool
    \/ BeforeToolExecute
    \/ ExecuteTool
    \/ AfterToolExecute
    \/ AppendToolResult
    \/ AfterLoop
    \/ StoreResponse
    \/ AfterRun
    \/ ReturnResult

\* one call of Run on a configured agent
Spec == Init /\ [][Next]_vars


(***************************************************************************)
(* ChatAgent.RunStream: the engine, the worker goroutine that calls the    *)
(* provider's Stream, the consumer of the output sink, and the caller's    *)
(* cancellation of ctx.                                                    *)
(***************************************************************************)
\* a Message sent to the output sink; streaming is Meta["streaming"]="true"
SinkMessage(content, streaming) ==
    [role |-> "assistant", content |-> content, streaming |-> streaming]

\* the content of the k-th chunk when it is not empty
Letters == <<"a", "b", "c", "d">>

\* the chunk sequences a provider may stream: each chunk carries text or
\* has empty content
ChunkSeqs ==
    UNION { { [j \in 1..k |-> IF c[j] THEN Letters[j] ELSE ""] : c \in [1..k -> BOOLEAN] }
            : k \in 0..MaxChunks }

\* the behaviours of llm.Client.Stream: the chunks it sends, whether it
\* closes the chunk channel before it returns, whether it returns an error,
\* and whether it gives up when ctx is cancelled
Providers ==
    [chunks : ChunkSeqs, closes : BOOLEAN, fails : BOOLEAN, ctxAware : BOOLEAN]

\* a return statement of RunStream: the deferred close runs next
SReturn(e) ==
    /\ pc' = "s_return"
    /\ err' = e

\* "Store incoming message": Store errors are dropped, and nothing is
\* stored over a value that is not a []Message
SStoreInput ==
    /\ pc = "s_start"
    /\ IF cfg.hasMem /\ (~RetrieveOK(mem) \/ IsSlice(mem))
       THEN \E ok \in BOOLEAN :
            /\ mem' = IF ok THEN InputValue(mem) ELSE mem
            /\ events' = Append(events, Ev("store", 0, ok, "input"))
       ELSE UNCHANGED <<mem, events>>
    /\ pc' = "s_build"
    /\ UNCHANGED <<auxVars, cfg, mem0, runVars, asked, err, streamVars>>

\* "Build history" and "Prepare LLM request"
SBuildMessages ==
    /\ pc = "s_build"
    /\ messages' = Assemble(History(mem))
    /\ mwIdx' = 1
    /\ pc' = "s_before"
    /\ UNCHANGED <<auxVars, cfg, mem, mem0, iter, finalResp, asked, tcIdx, toolIn,
                   toolOut, result, err, events, streamVars>>

\* BeforeLLMCall of each middleware; an error is returned
SBeforeLLMCall ==
    /\ pc = "s_before"
    /\ mwIdx <= NumMW
    /\ \E ok \in BOOLEAN :
        /\ events' = Append(events, Ev("beforeLLM", mwIdx, ok, ""))
        /\ IF ok
           THEN mwIdx' = mwIdx + 1 /\ UNCHANGED <<pc, err>>
           ELSE SReturn("middleware") /\ UNCHANGED mwIdx
    /\ UNCHANGED <<auxVars, cfg, mem, mem0, messages, iter, finalResp, asked, tcIdx,
                   toolIn, toolOut, result, streamVars>>

\* go func() { errCh <- a.Model.Stream(ctx, req, inner) }()
SpawnWorker ==
    /\ pc = "s_before"
    /\ mwIdx > NumMW
    /\ pc' = "s_select"
    /\ wpc' = "run"
    /\ events' = Append(events, Ev("stream", 1, TRUE, [req |-> messages, resp |-> NoResp]))
    /\ UNCHANGED <<auxVars, cfg, mem, mem0, runVars, asked, err, ctxDone, prov, wres,
                   sent, innerClosed, errCh, buffer, sinkCap, sinkQ,
                   consWaiting, accepted, sinkCloses, sentAfterClose>>

\* variant: only a blocked receiver takes a message, the buffer is not used
SinkReadyOnlyWaiting == consWaiting

\* the sink takes a message at once: a receiver is blocked on it, or its
\* buffer has room
SinkReady == consWaiting \/ Len(sinkQ) < sinkCap

\* select { case output <- msg: default: }
Offer(msg) ==
    IF sinkCloses > 0
    THEN sentAfterClose' = TRUE /\ UNCHANGED <<sinkQ, consWaiting, accepted>>
    ELSE /\ UNCHANGED sentAfterClose
         /\ IF SinkReady
            THEN /\ accepted' = Append(accepted, msg)
                 /\ IF consWaiting
                    THEN consWaiting' = FALSE /\ UNCHANGED sinkQ
                    ELSE sinkQ' = Append(sinkQ, msg) /\ UNCHANGED consWaiting
            ELSE UNCHANGED <<sinkQ, consWaiting, accepted>>

\* case resp, ok := <-inner with ok: the provider's blocked send completes;
\* the content is accumulated and offered, then every AfterLLMResponse hook
\* runs with its error dropped (bad = 1: the first middleware's hook fails)
RecvChunk ==
    /\ pc = "s_select"
    /\ wpc = "run"
    /\ sent < Len(prov.chunks)
    /\ sent' = sent + 1
    /\ LET c == prov.chunks[sent + 1] IN
        IF c # ""
        THEN /\ buffer' = buffer \o c
             /\ Offer(SinkMessage(c, TRUE))
        ELSE UNCHANGED <<buffer, sinkQ, consWaiting, accepted, sentAfterClose>>
    /\ \E bad \in {0, 1} :
        events' = events \o [i \in 1..NumMW |-> Ev("afterLLM", i, i # bad, "")]
    /\ UNCHANGED <<auxVars, cfg, mem, mem0, pc, runVars, asked, err, ctxDone, wpc, prov,
                   wres, innerClosed, errCh, sinkCap, sinkCloses>>

\* the final aggregated Message is stored only over a []Message or an
\* absent value
FinalStored(m) == cfg.hasMem /\ (~RetrieveOK(m) \/ IsSlice(m))

\* case resp, ok := <-inner with !ok: "Streaming done, emit final message
\* and persist", return nil
RecvClosed ==
    /\ pc = "s_select"
    /\ innerClosed
    /\ IF buffer # ""
       THEN /\ IF FinalStored(mem)
               THEN \E ok \in BOOLEAN :
                    /\ mem' = IF ok THEN ResponseValue(mem, Message("assistant", buffer))
                                    ELSE mem
                    /\ events' = Append(events, Ev("store", 0, ok, "final"))
               ELSE UNCHANGED <<mem, events>>
            /\ Offer(SinkMessage(buffer, FALSE))
       ELSE UNCHANGED <<mem, events, sinkQ, consWaiting, accepted, sentAfterClose>>
    /\ SReturn("nil")
    /\ UNCHANGED <<auxVars, cfg, mem0, runVars, asked, ctxDone, wpc, prov, wres, sent,
                   innerClosed, errCh, buffer, sinkCap, sinkCloses>>

\* case err := <-errCh: a non-nil error is returned, nil is dropped
RecvErr ==
    /\ pc = "s_select"
    /\ errCh # "empty"
    /\ errCh' = "empty"
    /\ IF errCh # "nil" THEN SReturn(errCh) ELSE UNCHANGED <<pc, err>>
    /\ UNCHANGED <<auxVars, cfg, mem, mem0, runVars, asked, events, ctxDone, wpc, prov,
                   wres, sent, innerClosed, buffer, sinkCap, sinkQ, consWaiting,
                   accepted, sinkCloses, sentAfterClose>>

\* case <-ctx.Done(): return ctx.Err()
RecvCtxDone ==
    /\ pc = "s_select"
    /\ ctxDone
    /\ SReturn("ctx")
    /\ UNCHANGED <<auxVars, cfg, mem, mem0, runVars, asked, events, streamVars>>

\* variant: the sink is closed only when the run succeeded
CloseOnSuccessOnly ==
    /\ pc = "s_return"
    /\ sinkCloses' = IF err = "nil" THEN sinkCloses + 1 ELSE sinkCloses
    /\ pc' = "done"
    /\ UNCHANGED <<auxVars, cfg, mem, mem0, runVars, asked, err, events, ctxDone, wpc,
                   prov, wres, sent, innerClosed, errCh, buffer, sinkCap, sinkQ,
                   consWaiting, accepted, sentAfterClose>>

\* defer close(output), then RunStream has returned
DeferClose ==
    /\ pc = "s_return"
    /\ sinkCloses' = sinkCloses + 1
    /\ pc' = "done"
    /\ UNCHANGED <<auxVars, cfg, mem, mem0, runVars, asked, err, events, ctxDone, wpc,
                   prov, wres, sent, innerClosed, errCh, buffer, sinkCap, sinkQ,
                   consWaiting, accepted, sentAfterClose>>

\* a provider that honours ctx stops streaming once ctx is cancelled and
\* returns an error (MockLLMClient.Stream returns ctx.Err())
ProvAbort ==
    /\ wpc = "run"
    /\ prov.ctxAware
    /\ ctxDone
    /\ sent < Len(prov.chunks)
    /\ prov' = [prov EXCEPT !.chunks = SubSeq(prov.chunks, 1, sent), !.fails = TRUE]
    /\ UNCHANGED <<auxVars, cfg, mem, mem0, pc, runVars, asked, err, events, ctxDone, wpc,
                   wres, sent, innerClosed, errCh, buffer, sinkCap, sinkQ,
                   consWaiting, accepted, sinkCloses, sentAfterClose>>

\* close(output) inside the provider's Stream, after its last chunk
ProvClose ==
    /\ wpc = "run"
    /\ sent = Len(prov.chunks)
    /\ prov.closes
    /\ innerClosed' = TRUE
    /\ wpc' = "closed"
    /\ UNCHANGED <<auxVars, cfg, mem, mem0, pc, runVars, asked, err, events, ctxDone,
                   prov, wres, sent, errCh, buffer, sinkCap, sinkQ, consWaiting,
                   accepted, sinkCloses, sentAfterClose>>

\* Stream returns and the worker sends its result on errCh (capacity 1)
ProvReturn ==
    /\ \/ wpc = "closed"
       \/ wpc = "run" /\ sent = Len(prov.chunks) /\ ~prov.closes
    /\ wres' = IF prov.fails THEN "llm" ELSE "nil"
    /\ errCh' = wres'
    /\ wpc' = "exited"
    /\ UNCHANGED <<auxVars, cfg, mem, mem0, pc, runVars, asked, err, events, ctxDone,
                   prov, sent, innerClosed, buffer, sinkCap, sinkQ, consWaiting,
                   accepted, sinkCloses, sentAfterClose>>

\* the caller cancels ctx while RunStream has not reached a return
Cancel ==
    /\ cfg.mode = "RunStream"
    /\ pc \notin {"s_return", "done"}
    /\ ~ctxDone
    /\ ctxDone' = TRUE
    /\ UNCHANGED <<auxVars, cfg, mem, mem0, pc, runVars, asked, err, events, wpc, prov,
                   wres, sent, innerClosed, errCh, buffer, sinkCap, sinkQ,
                   consWaiting, accepted, sinkCloses, sentAfterClose>>

\* the consumer blocks in a receive on the empty sink
ConsumerWait ==
    /\ cfg.mode = "RunStream"
    /\ ~consWaiting
    /\ sinkQ = <<>>
    /\ sinkCloses = 0
    /\ consWaiting' = TRUE
    /\ UNCHANGED <<auxVars, cfg, mem, mem0, pc, runVars, asked, err, events, ctxDone, wpc,
                   prov, wres, sent, innerClosed, errCh, buffer, sinkCap, sinkQ,
                   accepted, sinkCloses, sentAfterClose>>

\* the consumer receives the oldest buffered message
ConsumerTake ==
    /\ sinkQ # <<>>
    /\ sinkQ' = Tail(sinkQ)
    /\ UNCHANGED <<auxVars, cfg, mem, mem0, pc, runVars, asked, err, events, ctxDone, wpc,
                   prov, wres, sent, innerClosed, errCh, buffer, sinkCap,
                   consWaiting, accepted, sinkCloses, sentAfterClose>>

\* capacities of the sink handed to RunStream: unbuffered (the HTTP
\* handler's), one slot (the tests'), and room for every chunk and the final
SinkCaps == {0, 1, MaxChunks + 1}

StreamConfigs ==
    [mode : {"RunStream"}, maxIter : {1}, timeout : {"", "bad"},
     hasMem : BOOLEAN, hasTools : {FALSE}]

InitStream ==
    /\ cfg \in StreamConfigs
    /\ mem \in IF cfg.hasMem THEN InitialLogs ELSE {[kind |-> "absent", msgs |-> <<>>]}
    /\ mem0 = mem
    /\ pc = "s_start"
    /\ messages = <<>>
    /\ iter = 0
    /\ finalResp = NoResp
    /\ asked = 0
    /\ tcIdx = 0
    /\ mwIdx = 0
    /\ toolIn = ""
    /\ toolOut = ""
    /\ result = Message("", "")
    /\ err = "nil"
    /\ events = <<>>
    /\ ctxDone = FALSE
    /\ wpc = "idle"
    /\ prov \in Providers
    /\ wres = "none"
    /\ sent = 0
    /\ innerClosed = FALSE
    /\ errCh = "empty"
    /\ buffer = ""
    \* RunStream does not read Config.Timeout: an unparsable one is tried
    \* with the one-slot sink of the tests
    /\ sinkCap \in IF cfg.timeout = "bad" THEN {1} ELSE SinkCaps
    /\ sinkQ = <<>>
    /\ consWaiting = FALSE
    /\ accepted = <<>>
    /\ sinkCloses = 0
    /\ sentAfterClose = FALSE
    /\ AuxIdle

NextStream ==
    \/ SStoreInput
    \/ SBuildMessages
    \/ SBeforeLLMCall
    \/ SpawnWorker
    \/ RecvChunk
    \/ RecvClosed
    \/ RecvErr
    \/ RecvCtxDone
    \/ DeferClose
    \/ ProvAbort
    \/ ProvClose
    \/ ProvReturn
    \/ Cancel
    \/ ConsumerWait
    \/ ConsumerTake

\* one call of RunStream on a configured agent
SpecStream == InitStream /\ [][NextStream]_vars


\* Run or RunStream on a configured agent
InitAgent == Init \/ InitStream
NextAgent == Next \/ NextStream
SpecAgent == InitAgent /\ [][NextAgent]_vars

(***************************************************************************)
(* Properties of Run and RunStream.                                        *)
(***************************************************************************)
\* positions in events of the calls of one operation
At(op) == {k \in DOMAIN events : events[k].op = op}

\* the call returned (RunStream: after its deferred close)
Returned == pc = "done"

RECURSIVE Concat(_)
\* the concatenation of a sequence of strings
Concat(seq) == IF seq = <<>> THEN "" ELSE Head(seq) \o Concat(Tail(seq))

\* every Chat call so far returned a response with exactly one tool call
OneToolCallEveryResponse ==
    \A k \in At("chat") :
        events[k].ok /\ Len(events[k].data.resp.toolCalls) = 1

\* ... and each names a tool the registry holds
OneRegisteredCallEveryResponse ==
    \A k \in At("chat") :
        /\ events[k].ok
        /\ Len(events[k].data.resp.toolCalls) = 1
        /\ ToolFound(events[k].data.resp.toolCalls[1].name)

\* number of entries of the conversation log
LogLen(m) == IF RetrieveOK(m) THEN Len(m.msgs) ELSE 0

\* C1: on every exit path of RunStream the sink has been closed exactly
\* once when RunStream has returned; it is never closed earlier or twice,
\* and no send is attempted on the closed sink.
C1_SinkClosedExactlyOnce ==
    /\ sinkCloses <= 1
    /\ Returned <=> sinkCloses = 1
    /\ ~sentAfterClose

\* C1 witness: RunStream returned through the cancellation branch after it
\* had sent to the sink, and the sink is closed.
C1_Witness ==
    /\ Returned /\ err = "ctx" /\ accepted # <<>> /\ sinkCloses = 1

\* C2 (as claimed): with memory and a registry bound, max_iterations = N and
\* one registered tool call in every response, a successful Run grows the
\* log by 1 + N + N entries.
C2_LogGrowsByInputAssistantsAndTools ==
    ( /\ Returned /\ err = "nil"
      /\ cfg.hasMem /\ cfg.hasTools /\ cfg.maxIter >= 1
      /\ mem0.kind # "single"
      /\ OneRegisteredCallEveryResponse )
    => LogLen(mem) = LogLen(mem0) + 1 + cfg.maxIter + cfg.maxIter

\* C3 (as claimed, for the runs that succeed): a run with max_iterations =
\* N >= 1 whose LM asks for exactly one tool call in every response makes N
\* Chat calls.
C3_ChatCallsEqualMaxIterations ==
    (Returned /\ err = "nil" /\ cfg.maxIter >= 1 /\ OneToolCallEveryResponse)
    => NumChats = cfg.maxIter

\* C3 (amended): every successful run with a tool registry bound,
\* max_iterations = N >= 1 and exactly one tool call in every LM response
\* makes N Chat calls.
C3_ChatCallsEqualMaxIterationsWithRegistry ==
    ( /\ Returned /\ err = "nil"
      /\ cfg.hasTools /\ cfg.maxIter >= 1 /\ OneToolCallEveryResponse )
    => NumChats = cfg.maxIter

\* C3 witness: a successful run with a registry, max_iterations = 2 and one
\* tool call in each of its responses.
C3_Witness ==
    /\ Returned /\ err = "nil" /\ cfg.hasTools /\ cfg.maxIter = 2
    /\ OneToolCallEveryResponse /\ NumChats = 2

\* a hook or LM failure that ends the run
Fatal(e) == ~e.ok /\ e.op \in {"beforeLLM", "chat", "afterLLM", "beforeTool"}

\* C4: Run makes at most max(1, max_iterations) Chat calls; no Chat call
\* follows a response with zero tool calls; nothing follows a fatal error;
\* with max_iterations <= 0 a run that ends without exactly one Chat call
\* made none, because a fatal error came first.
C4_LoopBounded ==
    /\ NumChats <= (IF cfg.maxIter < 1 THEN 1 ELSE cfg.maxIter)
    /\ \A k \in At("chat") :
        (events[k].ok /\ Len(events[k].data.resp.toolCalls) = 0)
            => \A j \in At("chat") : j <= k
    /\ \A k \in DOMAIN events : Fatal(events[k]) => k = Len(events) /\ Returned
    /\ (Returned /\ cfg.maxIter <= 0 /\ NumChats # 1)
        => NumChats = 0 /\ err \in {"config", "memory", "middleware"}

\* C4 witness: a run with max_iterations = 0 returned after one Chat call
\* whose response asked for a tool.
C4_Witness ==
    /\ Returned /\ cfg.maxIter = 0 /\ cfg.hasTools /\ NumChats = 1 /\ err = "nil"
    /\ Len(finalResp.toolCalls) > 0

C6_ToolResultsReachNextRequest ==
    LET chats == At("chat")
    IN \A x \in At("exec") : \A c \in chats :
        events[c].i = events[x].i + 1 =>
            LET req == events[c].data.req
                prev == CHOOSE k \in chats : events[k].i = events[x].i
                turn == LLMMessage("assistant", events[prev].data.resp.content, "")
                toolMsg == LLMMessage("tool", events[x].data.out, events[x].data.id)
            IN \E p \in DOMAIN req :
                /\ req[p] = turn
                /\ \E q \in (p + 1)..Len(req) : req[q] = toolMsg

\* C6 witness: two tools were executed in iteration 1, one of them failed,
\* and the Chat call of iteration 2 has been made.
C6_Witness ==
    /\ \E x \in At("exec") : \E y \in At("exec") :
        x # y /\ events[x].i = 1 /\ events[y].i = 1 /\ ~events[x].ok
    /\ \E c \in At("chat") : events[c].i = 2

\* the NumMW events before position k are the given before hook of
\* middleware 1..NumMW in that order, each without error
HooksBefore(k, op) ==
    /\ k > NumMW
    /\ \A j \in 1..NumMW :
        LET e == events[k - NumMW + j - 1]
        IN e.op = op /\ e.i = j /\ e.ok

\* C7: every LM call (Chat, or the start of Stream) directly follows the
\* before_lm_call hooks of all middlewares in registration order, each
\* without error; every tool execution directly follows the
\* before_tool_execute hooks likewise, invoked for that call; and a before
\* hook that errors is the last thing the run does: the run has returned
\* the hook's error.
C7_BeforeHooksGuard ==
    /\ \A k \in At("chat") \cup At("stream") : HooksBefore(k, "beforeLLM")
    /\ \A k \in At("exec") :
        /\ HooksBefore(k, "beforeTool")
        /\ \A j \in 1..NumMW : events[k - j].data = events[k].data.id
    /\ \A k \in At("beforeLLM") \cup At("beforeTool") :
        ~events[k].ok =>
            /\ k = Len(events)
            /\ pc \in {"done", "s_return"}
            /\ err = "middleware"

\* C7 witness: a tool was executed, and later the before_lm_call hook of
\* the second middleware failed.
C7_Witness ==
    /\ At("exec") # {}
    /\ events[Len(events)].op = "beforeLLM"
    /\ events[Len(events)].i = 2
    /\ ~events[Len(events)].ok

\* Meta["streaming"] is unset
Finals == {k \in DOMAIN accepted : ~accepted[k].streaming}

\* C8 (as claimed): when RunStream returns nil after a non-empty chunk, the
\* sink has accepted exactly one message without the streaming flag, as its
\* last message, carrying the concatenation of the chunks.
C8_FinalAlwaysDelivered ==
    (Returned /\ err = "nil" /\ buffer # "")
    => /\ buffer = Concat(SubSeq(prov.chunks, 1, sent))
       /\ Finals = {Len(accepted)}
       /\ accepted[Len(accepted)] = SinkMessage(buffer, FALSE)

\* C9 (as claimed): when the provider's Stream returned an error, RunStream
\* returns an error.
C9_StreamErrorFailsRun ==
    (Returned /\ wres = "llm") => err # "nil"

\* C10 (as claimed, its weakest part): when ctx was cancelled before
\* RunStream reached a return, RunStream does not return nil.
C10_CancelledRunReturnsError ==
    (Returned /\ ctxDone) => err # "nil"

\* the last entry of the conversation log is x
LastEntryIs(m, x) ==
    RetrieveOK(m) /\ IsSlice(m) /\ m.msgs # <<>> /\ m.msgs[Len(m.msgs)] = x

\* C11 (as claimed): when RunStream has returned nil with a memory store
\* bound and a non-empty aggregated content, and the sink is closed, the
\* last entry of the conversation log is the aggregated assistant message.
C11_AggregatedPersistedAtClose ==
    (Returned /\ err = "nil" /\ cfg.mode = "RunStream" /\ cfg.hasMem /\ buffer # "")
    => sinkCloses = 1 /\ LastEntryIs(mem, Message("assistant", buffer))

\* the contents of the streaming-flagged messages the sink accepted, in
\* delivery order
Deltas ==
    LET flagged == SelectSeq(accepted, LAMBDA m : m.streaming)
    IN [k \in 1..Len(flagged) |-> flagged[k].content]

\* the non-empty chunks the provider has handed over, in emission order
EmittedChunks == SelectSeq(SubSeq(prov.chunks, 1, sent), LAMBDA c : c # "")

RECURSIVE IsSubseq(_, _)
\* s is a subsequence of t
IsSubseq(s, t) ==
    IF s = <<>> THEN TRUE
    ELSE IF t = <<>> THEN FALSE
    ELSE IF Head(s) = Head(t) THEN IsSubseq(Tail(s), Tail(t))
    ELSE IsSubseq(s, Tail(t))

\* C12: the streaming-flagged messages the sink accepted are, in delivery
\* order, a subsequence of the non-empty chunks in emission order; every
\* message accepted before RunStream reaches a return carries the
\* streaming flag; and when the sink's capacity is at least the number of
\* chunks plus one, they are all of the non-empty chunks.
C12_DeltasInEmissionOrder ==
    /\ IsSubseq(Deltas, EmittedChunks)
    /\ \A k \in DOMAIN accepted :
        ~accepted[k].streaming => k = Len(accepted) /\ pc \in {"s_return", "done"}
    /\ sinkCap >= Len(prov.chunks) + 1 => Deltas = EmittedChunks

\* C12 witness: a sink with room for everything has accepted both chunks of
\* the stream, in order, and then the final message.
C12_Witness ==
    /\ Returned /\ err = "nil" /\ sinkCap = MaxChunks + 1
    /\ Len(EmittedChunks) = 2 /\ Deltas = EmittedChunks /\ Len(accepted) = 3

\* C13 (as claimed): in Run and in RunStream, when the after_lm_response
\* hook of a middleware returned an error, the run returns that error.
C13_AfterLLMErrorFailsRun ==
    (Returned /\ \E k \in At("afterLLM") : ~events[k].ok) => err = "middleware"

\* the response of the Chat call of iteration n (events carry n = iter + 1)
ResponseOf(n) == events[CHOOSE k \in At("chat") : events[k].i = n].data.resp

\* iteration n is over: the next Chat call was made, or Run returned a result
IterationOver(n) ==
    \/ \E c \in At("chat") : events[c].i = n + 1
    \/ Returned /\ err = "nil"

\* C14: a failed tool execution does not fail Run. Its result is "error: "
\* followed by the error text and, once the call's after hooks have run, a
\* tool-role message with that content and the call's id is in the
\* conversation sent to the LM; right after the failure Run is still running
\* without error; whenever Run returns an error its last collaborator call
\* is a failed Store, hook or Chat, never a tool; when the iteration is over
\* every later call of the same response that names a registered tool has
\* been executed; and a successful run made the next Chat call when the
\* iteration bound allowed one.
C14_ToolErrorNotFatal ==
    /\ \A x \in At("exec") : ~events[x].ok =>
        LET id == events[x].data.id
            n == events[x].i
            calls == ResponseOf(n).toolCalls
        IN /\ events[x].data.out = "error: " \o ToolErrorText
           /\ x = Len(events) => pc = "afterTool" /\ err = "nil"
           /\ ~(pc = "afterTool" /\ finalResp.toolCalls[tcIdx].id = id)
                => \E q \in DOMAIN messages :
                    messages[q] = LLMMessage("tool", "error: " \o ToolErrorText, id)
           /\ IterationOver(n) =>
                \A j \in DOMAIN calls :
                    calls[j].name \in Registered
                        => \E y \in At("exec") : events[y].data.id = calls[j].id
           /\ (Returned /\ err = "nil" /\ n < MaxIterations)
                => \E c \in At("chat") : events[c].i = n + 1
    /\ (Returned /\ err # "nil") =>
        \/ events = <<>>
        \/ LET e == events[Len(events)]
           IN ~e.ok /\ e.op \in {"store", "beforeLLM", "chat", "afterLLM", "beforeTool"}

\* C14 witness: the first of two tool calls of iteration 1 failed, the
\* second was executed, the next Chat call was made and Run returned a result.
C14_Witness ==
    /\ Returned /\ err = "nil"
    /\ \E x \in At("exec") : \E y \in At("exec") :
        /\ ~events[x].ok /\ events[x].data.id = ToolCallID(1, 1)
        /\ events[y].data.id = ToolCallID(1, 2)
    /\ \E c \in At("chat") : events[c].i = 2

\* the collaborator calls made for the tool call with the given id
ToolEventsFor(id) ==
    {k \in DOMAIN events :
        \/ events[k].op \in {"beforeTool", "afterTool"} /\ events[k].data = id
        \/ events[k].op = "exec" /\ events[k].data.id = id}

\* C15: with a registry bound, a tool call that names a tool the registry
\* does not hold is skipped: no tool hook and no execution happens for it,
\* no tool-role message with its id is in the conversation, Run has not
\* returned and has no error while the skip is its latest step, and when the iteration is
\* over every call of the same response that names a registered tool has
\* been executed.
C15_UnknownToolSkipped ==
    cfg.hasTools =>
        \A c \in At("chat") : \A j \in DOMAIN events[c].data.resp.toolCalls :
            LET calls == events[c].data.resp.toolCalls
                id == calls[j].id
            IN calls[j].name \notin Registered =>
                /\ ToolEventsFor(id) = {}
                /\ \A q \in DOMAIN messages :
                    ~(messages[q].role = "tool" /\ messages[q].id = id)
                /\ \A k \in At("notfound") :
                    (events[k].data = id /\ k = Len(events))
                        => ~Returned /\ err = "nil"
                /\ IterationOver(events[c].i) =>
                    /\ \E k \in At("notfound") : events[k].data = id
                    /\ \A i \in DOMAIN calls :
                        calls[i].name \in Registered => ToolEventsFor(calls[i].id) # {}

\* C15 witness: the first call of the first response named an unknown tool
\* and was skipped, the second call of that response was executed, and Run
\* returned a result.
C15_Witness ==
    /\ Returned /\ err = "nil" /\ cfg.hasTools
    /\ Len(ResponseOf(1).toolCalls) = 2
    /\ ResponseOf(1).toolCalls[1].name \notin Registered
    /\ \E k \in At("notfound") : events[k].data = ToolCallID(1, 1)
    /\ \E y \in At("exec") : events[y].data.id = ToolCallID(1, 2)

\* C16 (as claimed): the message a successful Run returns is the content of
\* an LM response of the run that carried no tool calls.
C16_ResultIsToolFreeResponse ==
    (Returned /\ err = "nil") =>
        \E c \in At("chat") :
            /\ result = Message("assistant", events[c].data.resp.content)
            /\ Len(events[c].data.resp.toolCalls) = 0

\* C16 (amended): the message a successful Run returns is the content of
\* the last LM response of the run; that response carried no tool calls
\* unless the run stopped because max_iterations was reached or because no
\* tool registry is bound.
C16_ResultIsLastResponse ==
    (Returned /\ err = "nil") =>
        /\ NumChats >= 1
        /\ result = Message("assistant", ResponseOf(NumChats).content)
        /\ Len(ResponseOf(NumChats).toolCalls) > 0
            => ~cfg.hasTools \/ NumChats = MaxIterations

\* C16 witness: a successful run with a registry and max_iterations = 2
\* returned the content of its second response, which asked for a tool.
C16_Witness ==
    /\ Returned /\ err = "nil" /\ cfg.hasTools /\ cfg.maxIter = 2 /\ NumChats = 2
    /\ Len(ResponseOf(2).toolCalls) > 0
    /\ result = Message("assistant", ResponseOf(2).content)

\* C17 (as claimed): in Run and in RunStream, when a Store of the input or
\* of the final assistant response failed, the run returns an error.
C17_StoreFailureFailsRun ==
    (Returned /\ \E k \in At("store") : ~events[k].ok) => err # "nil"

\* C18 (as claimed): when the value stored at the start of a Run is a single
\* Message m, the first LM request of the run holds m, as history, before
\* the current input.
C18_LegacyMessagePromoted ==
    (cfg.mode = "Run" /\ cfg.hasMem /\ mem0.kind = "single") =>
        \A c \in At("chat") : events[c].i = 1 =>
            LET req == events[c].data.req
                m == mem0.msgs[1]
            IN \E p \in DOMAIN req : \E q \in DOMAIN req :
                /\ p < q
                /\ req[p] = LLMMessage(m.role, m.content, "")
                /\ req[q] = LLMMessage(Input.role, Input.content, "")

(***************************************************************************)
(* Concurrent Runs of agents that share one in-memory store.  Each Store   *)
(* and each Retrieve is atomic (the store's mutex); the Retrieve and the   *)
(* Store of one append are two calls.  The agents have no middleware and   *)
(* no tool registry.                                                       *)
(***************************************************************************)
Runs == 1..NumRuns

\* the input of run r and the content of the LM's answer to it
RunInput(r) == Message("user", "hi" \o ToString(r))
RunReply(r) == Message("assistant", "reply" \o ToString(r))

\* the value a run's Store writes: its entry appended to the []Message it
\* retrieved, or a fresh one-element slice
SharedValue(m, x) == IF RetrieveOK(m) /\ IsSlice(m) THEN Appended(m, x) ELSE Fresh(x)

\* variant: the append is made to the value the store holds now
WriteBaseCurrent(r) == mem

\* the value run r appends to: the one its own Retrieve returned
WriteBase(r) == existing[r]

\* a.Mem.Retrieve(ctx, "conversation") of "Store input message in memory"
SharedRetrieveInput(r) ==
    /\ rpc[r] = "start"
    /\ existing' = [existing EXCEPT ![r] = mem]
    /\ rpc' = [rpc EXCEPT ![r] = "storeInput"]
    /\ UNCHANGED <<cfg, mem, mem0, pc, runVars, asked, err, events, streamVars,
                   rerr, fanVars, libVars>>

\* a.Mem.Store(ctx, "conversation", ...) of the input (the in-memory Store
\* returns no error)
SharedStoreInput(r) ==
    /\ rpc[r] = "storeInput"
    /\ mem' = SharedValue(WriteBase(r), RunInput(r))
    /\ events' = Append(events, Ev("store", r, TRUE,
                    [read |-> existing[r], over |-> mem, entry |-> RunInput(r)]))
    /\ rpc' = [rpc EXCEPT ![r] = "chat"]
    /\ UNCHANGED <<cfg, mem0, pc, runVars, asked, err, streamVars, existing, rerr,
                   fanVars, libVars>>

\* history, request and a.Model.Chat: an LM error is returned
SharedChat(r) ==
    /\ rpc[r] = "chat"
    /\ \E ok \in BOOLEAN :
        /\ events' = Append(events, Ev("chat", r, ok, History(mem)))
        /\ IF ok
           THEN rpc' = [rpc EXCEPT ![r] = "response"] /\ UNCHANGED rerr
           ELSE /\ rpc' = [rpc EXCEPT ![r] = "done"]
                /\ rerr' = [rerr EXCEPT ![r] = "llm"]
    /\ UNCHANGED <<cfg, mem, mem0, pc, runVars, asked, err, streamVars, existing,
                   fanVars, libVars>>

\* a.Mem.Retrieve(ctx, "conversation") of "Store response in memory"
SharedRetrieveResponse(r) ==
    /\ rpc[r] = "response"
    /\ existing' = [existing EXCEPT ![r] = mem]
    /\ rpc' = [rpc EXCEPT ![r] = "storeResponse"]
    /\ UNCHANGED <<cfg, mem, mem0, pc, runVars, asked, err, events, streamVars,
                   rerr, fanVars, libVars>>

\* a.Mem.Store(ctx, "conversation", ...) of the response, then return
SharedStoreResponse(r) ==
    /\ rpc[r] = "storeResponse"
    /\ mem' = SharedValue(WriteBase(r), RunReply(r))
    /\ events' = Append(events, Ev("store", r, TRUE,
                    [read |-> existing[r], over |-> mem, entry |-> RunReply(r)]))
    /\ rpc' = [rpc EXCEPT ![r] = "done"]
    /\ UNCHANGED <<cfg, mem0, pc, runVars, asked, err, streamVars, existing, rerr,
                   fanVars, libVars>>

InitShared ==
    /\ cfg = [mode |-> "Shared", maxIter |-> 1, timeout |-> "", hasMem |-> TRUE,
              hasTools |-> FALSE]
    /\ mem \in InitialLogs
    /\ mem0 = mem
    /\ pc = "idle"
    /\ messages = <<>>
    /\ iter = 0
    /\ finalResp = NoResp
    /\ asked = 0
    /\ tcIdx = 0
    /\ mwIdx = 0
    /\ toolIn = ""
    /\ toolOut = ""
    /\ result = Message("", "")
    /\ err = "nil"
    /\ events = <<>>
    /\ StreamIdle
    /\ rpc = [r \in Runs |-> "start"]
    /\ existing = [r \in Runs |-> mem]
    /\ rerr = [r \in Runs |-> "nil"]
    /\ FanIdle
    /\ LibIdle("")

NextShared ==
    \E r \in Runs :
        \/ SharedRetrieveInput(r)
        \/ SharedStoreInput(r)
        \/ SharedChat(r)
        \/ SharedRetrieveResponse(r)
        \/ SharedStoreResponse(r)

\* NumRuns concurrent Runs against one in-memory store
SpecShared == InitShared /\ [][NextShared]_vars

\* a Store made over a value other than the one the run had retrieved
StaleStores == {k \in At("store") : events[k].data.over # events[k].data.read}

\* the entries stored so far that the log no longer holds
LostEntries ==
    {events[k].data.entry : k \in At("store")}
        \ {mem.msgs[i] : i \in DOMAIN mem.msgs}

\* C19: each run appends to the value its own Retrieve returned, so a Store
\* made after another run's Store in between erases that run's entry for
\* good: entries stored by the runs are missing from the log exactly when
\* such a Store has happened.
C19_StaleStoreLosesEntries ==
    (StaleStores # {}) <=> (LostEntries # {})

\* C19 witness: both runs returned successfully and the log lacks an entry
\* that one of them stored.
C19_Witness ==
    /\ \A r \in Runs : rpc[r] = "done" /\ rerr[r] = "nil"
    /\ LostEntries # {}

(***************************************************************************)
(* FanOutFirst.Execute: one worker goroutine per agent, a result channel   *)
(* with room for every result, and the receive loop of Execute.            *)
(***************************************************************************)
\* the prompt handed to Execute
Prompt == "q"

\* what agent i's Run returns: fakeAgent's reply, or its error
AgentContent(i) == "A" \o ToString(i) \o ":" \o Prompt
AgentError(i) == "e" \o ToString(i)

\* res{out.Content, nil} / res{"", err}
Res(i) ==
    IF agents[i] THEN [s |-> AgentContent(i), err |-> "nil"]
    ELSE [s |-> "", err |-> AgentError(i)]

\* "for _, a := range agents { wg.Add(1); go func(ag core.Agent) {...}(a) }"
FanSpawn ==
    /\ fpc = "spawn"
    /\ wstate' = [i \in DOMAIN agents |-> "run"]
    /\ fpc' = "recv"
    /\ UNCHANGED <<cfg, mem, mem0, pc, runVars, asked, err, events, streamVars,
                   sharedVars, libVars, agents, ch, recvd, lastErr, fret>>

\* ag.Run(ctx, ...) returns in worker i
WorkerRun(i) ==
    /\ wstate[i] = "run"
    /\ wstate' = [wstate EXCEPT ![i] = "send"]
    /\ UNCHANGED <<cfg, mem, mem0, pc, runVars, asked, err, events, streamVars,
                   sharedVars, libVars, agents, ch, recvd, lastErr, fpc, fret>>

\* "ch := make(chan res, len(agents))": the capacity of the result channel
ChanCapShort == Len(agents) - 1

ChanCap == Len(agents)

\* "ch <- res{...}" on the channel of capacity len(agents)
WorkerSend(i) ==
    /\ wstate[i] = "send"
    /\ Len(ch) < ChanCap
    /\ ch' = Append(ch, Res(i))
    /\ wstate' = [wstate EXCEPT ![i] = "sent"]
    /\ UNCHANGED <<cfg, mem, mem0, pc, runVars, asked, err, events, streamVars,
                   sharedVars, libVars, agents, recvd, lastErr, fpc, fret>>

\* "defer wg.Done()": the worker goroutine ends
WorkerDone(i) ==
    /\ wstate[i] = "sent"
    /\ wstate' = [wstate EXCEPT ![i] = "done"]
    /\ UNCHANGED <<cfg, mem, mem0, pc, runVars, asked, err, events, streamVars,
                   sharedVars, libVars, agents, ch, recvd, lastErr, fpc, fret>>

\* "r := <-ch": the first result without error is returned at once, an
\* error is kept in lastErr
FanRecv ==
    /\ fpc = "recv"
    /\ recvd < Len(agents)
    /\ ch # <<>>
    /\ ch' = Tail(ch)
    /\ IF Head(ch).err = "nil"
       THEN /\ fret' = [s |-> Head(ch).s, err |-> "nil"]
            /\ fpc' = "done"
            /\ UNCHANGED <<recvd, lastErr>>
       ELSE /\ lastErr' = Head(ch).err
            /\ recvd' = recvd + 1
            /\ UNCHANGED <<fpc, fret>>
    /\ UNCHANGED <<cfg, mem, mem0, pc, runVars, asked, err, events, streamVars,
                   sharedVars, libVars, agents, wstate>>

\* after the loop: "wg.Wait(); return "", lastErr"
FanWait ==
    /\ fpc = "recv"
    /\ recvd = Len(agents)
    /\ \A i \in DOMAIN wstate : wstate[i] = "done"
    /\ fret' = [s |-> "", err |-> lastErr]
    /\ fpc' = "done"
    /\ UNCHANGED <<cfg, mem, mem0, pc, runVars, asked, err, events, streamVars,
                   sharedVars, libVars, agents, wstate, ch, recvd, lastErr>>

\* the lists of agents handed to Execute: agent i's Run succeeds or fails
AgentLists == UNION { [1..n -> BOOLEAN] : n \in 0..MaxAgents }

InitFan ==
    /\ cfg = [mode |-> "FanOutFirst", maxIter |-> 1, timeout |-> "",
              hasMem |-> FALSE, hasTools |-> FALSE]
    /\ mem = [kind |-> "absent", msgs |-> <<>>]
    /\ mem0 = mem
    /\ pc = "idle"
    /\ messages = <<>>
    /\ iter = 0
    /\ finalResp = NoResp
    /\ asked = 0
    /\ tcIdx = 0
    /\ mwIdx = 0
    /\ toolIn = ""
    /\ toolOut = ""
    /\ result = Message("", "")
    /\ err = "nil"
    /\ events = <<>>
    /\ StreamIdle
    /\ SharedIdle
    /\ LibIdle("")
    /\ agents \in AgentLists
    /\ wstate = [i \in DOMAIN agents |-> "idle"]
    /\ ch = <<>>
    /\ recvd = 0
    /\ lastErr = "nil"
    /\ fpc = "spawn"
    /\ fret = [s |-> "", err |-> "nil"]

NextFan ==
    \/ FanSpawn
    \/ \E i \in DOMAIN agents : WorkerRun(i) \/ WorkerSend(i) \/ WorkerDone(i)
    \/ FanRecv
    \/ FanWait

\* one call of FanOutFirst.Execute
SpecFan == InitFan /\ [][NextFan]_vars

\* C20 (as claimed): when Execute has returned, it returned success exactly
\* when some agent's Run succeeded, and an error exactly when every agent's
\* Run failed, the error being the last one received.
C20_FanOutSuccessIffSomeAgentSucceeds ==
    fpc = "done" =>
        /\ fret.err = "nil" <=> \E i \in DOMAIN agents : agents[i]
        /\ fret.err # "nil" <=> \A i \in DOMAIN agents : ~agents[i]
        /\ fret.err # "nil" => fret.err = lastErr

\* the workers whose one send has been made
SentWorkers == {i \in DOMAIN wstate : wstate[i] \in {"sent", "done"}}

\* the results Execute has taken from the channel: the errors counted by
\* the loop, and the success it returned on
Received == recvd + (IF fpc = "done" /\ recvd < Len(agents) THEN 1 ELSE 0)

\* C21 (as claimed): when Execute has returned, with a result or with the
\* last error, the Run of every agent it launched has returned.
C21_ExecuteWaitsForAllAgents ==
    fpc = "done" => \A i \in DOMAIN wstate : wstate[i] # "run"

\* C22: a worker that is about to send finds room in the channel, whether
\* or not Execute has returned; and the results in the channel plus those
\* Execute has taken are exactly one per worker that has sent.
C22_WorkersSendOnceWithoutBlocking ==
    /\ \A i \in DOMAIN wstate : wstate[i] = "send" => Len(ch) < ChanCap
    /\ Len(ch) + Received = Cardinality(SentWorkers)
    /\ Len(ch) <= Len(agents)

\* C22 witness: Execute has returned on the first success, the other
\* worker sent its result afterwards into the channel nobody reads, and
\* both workers have ended.
C22_Witness ==
    /\ Len(agents) = 2
    /\ fpc = "done" /\ fret.err = "nil"
    /\ Len(ch) = 1
    /\ \A i \in DOMAIN wstate : wstate[i] = "done"

(***************************************************************************)
(* The library parts checked on their own: no Run or RunStream of the      *)
(* agent is in progress while one of them is exercised.                    *)
(***************************************************************************)
AgentIdle(mode) ==
    /\ cfg = [mode |-> mode, maxIter |-> 1, timeout |-> "",
              hasMem |-> FALSE, hasTools |-> FALSE]
    /\ mem = [kind |-> "absent", msgs |-> <<>>]
    /\ mem0 = mem
    /\ pc = "idle"
    /\ messages = <<>>
    /\ iter = 0
    /\ finalResp = NoResp
    /\ asked = 0
    /\ tcIdx = 0
    /\ mwIdx = 0
    /\ toolIn = ""
    /\ toolOut = ""
    /\ result = Message("", "")
    /\ err = "nil"
    /\ events = <<>>
    /\ StreamIdle
    /\ SharedIdle
    /\ FanIdle
    /\ LibIdle(mode)

\* everything but the variables of one library part
agentVars == <<cfg, mem, mem0, pc, runVars, asked, err, events, streamVars,
               sharedVars, fanVars, extVars>>

\* everything but http, retry, conv and sess
restVars == <<cfg, mem, mem0, pc, runVars, asked, err, events, streamVars,
              sharedVars, fanVars, seqVars, limVars, guardVars, regVars>>

(***************************************************************************)
(* SequentialPolicy.Execute: the agents run one after the other, each on   *)
(* the content the one before returned.                                    *)
(***************************************************************************)
MaxSeqAgents == 3

\* fakeAgent{reply, err}
FakeAgents == [reply : {"A1", "A2"}, err : {"nil", "boom"}]

\* fakeAgent.Run
FakeRun(f, content) ==
    IF f.err # "nil" THEN [Content |-> "", err |-> f.err]
    ELSE [Content |-> f.reply \o ":" \o content, err |-> "nil"]

\* "input = out.Content"
NextInputUnchanged(cur, out) == cur

NextInput(cur, out) == out.Content

\* one pass of "for _, a := range agents": the call of a.Run on
\* core.Message{Role: "user", Content: input}, then the return of its error
\* or the assignment to input
SeqRun ==
    /\ ~seqRet.done
    /\ Len(seqRuns) < Len(seqAgents)
    /\ LET i == Len(seqRuns) + 1
           out == FakeRun(seqAgents[i], seqInput)
       IN /\ seqRuns' = Append(seqRuns, [agent |-> i, role |-> "user",
                                         content |-> seqInput])
          /\ IF out.err # "nil"
             THEN /\ seqRet' = [done |-> TRUE, s |-> "", err |-> out.err]
                  /\ UNCHANGED seqInput
             ELSE /\ seqInput' = NextInput(seqInput, out)
                  /\ UNCHANGED seqRet
    /\ UNCHANGED <<agentVars, seqAgents, limVars, guardVars, regVars>>

\* after the loop: "return input, nil"
SeqReturn ==
    /\ ~seqRet.done
    /\ Len(seqRuns) = Len(seqAgents)
    /\ seqRet' = [done |-> TRUE, s |-> seqInput, err |-> "nil"]
    /\ UNCHANGED <<agentVars, seqAgents, seqInput, seqRuns, limVars, guardVars,
                   regVars>>

SeqAgentLists == UNION { [1..n -> FakeAgents] : n \in 0..MaxSeqAgents }

InitSeq ==
    /\ AgentIdle("Sequential")
    /\ seqAgents \in SeqAgentLists
    /\ seqInput = Prompt
    /\ seqRuns = <<>>
    /\ seqRet = [done |-> FALSE, s |-> "", err |-> "nil"]

NextSeq ==
    \/ SeqRun
    \/ SeqReturn

\* one call of SequentialPolicy.Execute
SpecSeq == InitSeq /\ [][NextSeq]_vars

\* the content agent k returns when every agent up to k succeeds
RECURSIVE Chain(_)
Chain(k) == IF k = 0 THEN Prompt ELSE seqAgents[k].reply \o ":" \o Chain(k - 1)

\* the agents whose Run fails
Failing == {i \in DOMAIN seqAgents : seqAgents[i].err # "nil"}

\* C23: the k-th Run call is made on agent k, as a user message whose
\* content is the prompt for the first agent and the content returned by
\* agent k-1 for the others; no agent after a failing one is run; Execute
\* returns the first failing agent's error if there is one, and otherwise
\* the content of the last agent (the prompt itself for an empty list).
C23_SequentialChainsOutputs ==
    /\ \A k \in DOMAIN seqRuns :
        /\ seqRuns[k].agent = k
        /\ seqRuns[k].role = "user"
        /\ seqRuns[k].content = Chain(k - 1)
        /\ \A j \in 1..(k - 1) : j \notin Failing
    /\ seqRet.done =>
        IF Failing = {}
        THEN /\ seqRet.err = "nil"
             /\ seqRet.s = Chain(Len(seqAgents))
             /\ Len(seqRuns) = Len(seqAgents)
        ELSE LET f == CHOOSE i \in Failing : \A j \in Failing : i <= j
             IN /\ seqRet.err = seqAgents[f].err
                /\ seqRet.s = ""
                /\ Len(seqRuns) = f

\* C23 witness: three agents ran in a row and Execute returned the third
\* one's content.
C23_Witness ==
    /\ seqRet.done /\ seqRet.err = "nil"
    /\ Len(seqRuns) = 3
    /\ seqRet.s = seqAgents[3].reply \o ":" \o seqAgents[2].reply \o ":"
                  \o seqAgents[1].reply \o ":" \o Prompt

(***************************************************************************)
(* TokenLimiter.Process: the history trimmed to a budget of characters.    *)
(***************************************************************************)
MaxHist == 3
MaxBudget == 4

\* "total += len(history[i].Content)" over a list of messages
RECURSIVE Total(_)
Total(msgs) == IF msgs = <<>> THEN 0 ELSE Len(Head(msgs).content) + Total(Tail(msgs))

\* the test of the trim loop, negated: "cur+len(history[i].Content) > t.MaxChars"
FitsAlways(cur, n, B) == TRUE

Fits(cur, n, B) == ~(cur + n > B)

\* TokenLimiter{MaxChars: B}.Process(ctx, H)
Process(B, H) ==
    LET \* the loop from the newest message to the oldest, appending to out
        RECURSIVE Collect(_, _, _)
        Collect(i, cur, out) ==
            IF i = 0 THEN out
            ELSE IF Fits(cur, Len(H[i].content), B)
                 THEN Collect(i - 1, cur + Len(H[i].content), Append(out, H[i]))
                 ELSE Collect(i - 1, cur, out)
        \* "reverse back to chronological"
        Reverse(s) == [k \in 1..Len(s) |-> s[Len(s) + 1 - k]]
    IN IF B <= 0 THEN H
       ELSE IF Total(H) <= B THEN H
       ELSE Reverse(Collect(Len(H), 0, <<>>))

\* the call of Process
LimProcess ==
    /\ ~trimmed.done
    /\ trimmed' = [done |-> TRUE, msgs |-> Process(maxChars, hist)]
    /\ UNCHANGED <<agentVars, seqVars, maxChars, hist, guardVars, regVars>>

\* histories of user and assistant turns in alternation, with contents of
\* 0 to 3 characters
Histories ==
    UNION { [1..n -> {"", "a", "bb", "ccc"}] : n \in 0..MaxHist }

InitLim ==
    /\ AgentIdle("TokenLimiter")
    /\ maxChars \in -1..MaxBudget
    /\ \E c \in Histories :
        hist = [k \in DOMAIN c |->
                    Message(IF k % 2 = 1 THEN "user" ELSE "assistant", c[k])]
    /\ trimmed = [done |-> FALSE, msgs |-> <<>>]

\* one call of TokenLimiter.Process on any history and budget
SpecLim == InitLim /\ [][LimProcess]_vars

\* C24 (as claimed): for every budget B >= 0 the contents of the messages
\* Process returns have at most B characters in total.
C24_TrimmedWithinBudget ==
    (trimmed.done /\ maxChars >= 0) => Total(trimmed.msgs) <= maxChars

\* C24 (amended): for every budget B > 0 the contents of the messages
\* Process returns have at most B characters in total; for B <= 0 Process
\* returns the history as it is.
C24_TrimmedWithinPositiveBudget ==
    trimmed.done =>
        /\ maxChars > 0 => Total(trimmed.msgs) <= maxChars
        /\ maxChars <= 0 => trimmed.msgs = hist

\* C24 witness: a history over a positive budget was trimmed to a non-empty
\* list.
C24_Witness ==
    /\ trimmed.done /\ maxChars > 0
    /\ Total(hist) > maxChars
    /\ trimmed.msgs # <<>>

\* C25 (as claimed, for positive budgets): Process returns the longest
\* suffix of the history whose contents have at most B characters in total.
C25_TrimmedIsLargestSuffix ==
    (trimmed.done /\ maxChars > 0) =>
        LET n == Len(hist)
            Suffix(k) == SubSeq(hist, k, n)
            first == CHOOSE k \in 1..(n + 1) :
                        /\ Total(Suffix(k)) <= maxChars
                        /\ \A j \in 1..(k - 1) : Total(Suffix(j)) > maxChars
        IN trimmed.msgs = Suffix(first)

(***************************************************************************)
(* SimpleGuardrails.BeforeLLMCall: the last user message is cut to         *)
(* MaxInputChars and then matched against the deny and allow lists.        *)
(* Contents and substrings are sequences of characters.                    *)
(***************************************************************************)
MaxContent == 3
MaxGuardCalls == 2

\* strings.ToLower
ToLower(s) == [k \in DOMAIN s |-> IF s[k] = "A" THEN "a" ELSE s[k]]

\* strings.Contains
Contains(s, sub) ==
    \E i \in 0..(Len(s) - Len(sub)) : SubSeq(s, i + 1, i + Len(sub)) = sub

\* "last.Content[:g.MaxInputChars]"
TruncateDropFirst(c, n) == Tail(c)

Truncate(c, n) == SubSeq(c, 1, n)

\* "if s == "" { continue }" in both loops
SkippedNever(s) == FALSE

Skipped(s) == s = <<>>

\* g.BeforeLLMCall(ctx, req) on a request that is not nil: the error it
\* returns, the messages of the request afterwards, and the content of the
\* last message as it was checked
GuardrailCheck(g, request) ==
    IF request = <<>>
    THEN [err |-> "nil", req |-> request, content |-> <<>>]
    ELSE LET n == Len(request)
             last == request[n]
             content == IF g.MaxInputChars > 0
                           /\ Len(last.content) > g.MaxInputChars
                        THEN Truncate(last.content, g.MaxInputChars)
                        ELSE last.content
             Hit(list) == \E k \in DOMAIN list :
                             /\ ~Skipped(list[k])
                             /\ Contains(ToLower(content), ToLower(list[k]))
         IN IF last.role # "user"
            THEN [err |-> "nil", req |-> request, content |-> last.content]
            ELSE [err |-> IF Hit(g.DenySubstrings)
                          THEN "request blocked by guardrails"
                          ELSE IF Len(g.AllowSubstrings) > 0
                                  /\ ~Hit(g.AllowSubstrings)
                          THEN "request not permitted by guardrails"
                          ELSE "nil",
                  req |-> [request EXCEPT ![n].content = content],
                  content |-> content]

\* one call g.BeforeLLMCall(ctx, req) on the request
GuardBeforeLLMCall ==
    /\ Len(gret) < MaxGuardCalls
    /\ LET r == GuardrailCheck(guard, greq)
       IN /\ greq' = r.req
          /\ gret' = Append(gret, [err |-> r.err, content |-> r.content])
    /\ UNCHANGED <<agentVars, seqVars, limVars, guard, greq0, regVars>>

\* the contents of the last message
Contents == UNION { [1..n -> {"a", "A", "b"}] : n \in 0..MaxContent }

\* the guardrails: a limit, a deny list and an allow list
Guards ==
    [MaxInputChars : 0..MaxContent,
     DenySubstrings : {<<>>, << <<>> >>, << <<"A">> >>, << <<"a", "b">> >>,
                       << <<>>, <<"b">> >>},
     AllowSubstrings : {<<>>, << <<>> >>, << <<"A">> >>, << <<"b">>, <<"a", "a">> >>}]

\* the requests: empty, one message, or an earlier turn and a last message
Requests ==
    LET lasts == {LLMMessage(r, c, "") : r \in {"user", "assistant"}, c \in Contents}
        earlier == LLMMessage("user", <<"A", "b", "A">>, "")
    IN {<<>>} \cup {<<m>> : m \in lasts} \cup {<<earlier, m>> : m \in lasts}

InitGuard ==
    /\ AgentIdle("Guardrails")
    /\ guard \in Guards
    /\ greq0 \in Requests
    /\ greq = greq0
    /\ gret = <<>>

\* up to MaxGuardCalls calls of BeforeLLMCall on the same request
SpecGuard == InitGuard /\ [][GuardBeforeLLMCall]_vars

\* what the guardrail is said to do on the first call: a request without a
\* last user message is left alone and passes; otherwise only the last
\* content changes, to its first MaxInputChars characters when the limit is
\* positive and exceeded, and the call fails exactly when a non-empty deny
\* substring appears in that content, or the allow list is non-empty and
\* none of its entries (none of its non-empty entries, with skipEmpty)
\* appears in it, letters compared without regard to case.
GuardrailAsSpecified(skipEmpty) ==
    LET n == Len(greq0)
    IN IF n = 0 \/ greq0[n].role # "user"
       THEN gret[1].err = "nil" /\ greq = greq0
       ELSE LET c0 == greq0[n].content
                max == guard.MaxInputChars
                c == IF max > 0 /\ Len(c0) > max THEN [k \in 1..max |-> c0[k]] ELSE c0
                Same(x, y) == ToLower(<<x>>) = ToLower(<<y>>)
                Appears(sub) ==
                    \E i \in 0..(Len(c) - Len(sub)) :
                        \A k \in 1..Len(sub) : Same(c[i + k], sub[k])
                deny == \E k \in DOMAIN guard.DenySubstrings :
                            /\ guard.DenySubstrings[k] # <<>>
                            /\ Appears(guard.DenySubstrings[k])
                allowMiss ==
                    /\ guard.AllowSubstrings # <<>>
                    /\ \A k \in DOMAIN guard.AllowSubstrings :
                        (skipEmpty => guard.AllowSubstrings[k] # <<>>)
                            => ~Appears(guard.AllowSubstrings[k])
            IN /\ greq = [greq0 EXCEPT ![n].content = c]
               /\ gret[1].err # "nil" <=> (deny \/ allowMiss)

C27_TruncationIdempotent ==
    Len(gret) >= 2 => gret[2].content = gret[1].content

\* C27 witness: the first call cut the content, and a second call was made.
C27_Witness ==
    /\ Len(gret) >= 2 /\ greq0 # <<>>
    /\ Len(gret[1].content) < Len(greq0[Len(greq0)].content)
    /\ gret[1].content # <<>>

(***************************************************************************)
(* DefaultRegistry.Register called from several goroutines: the map tools  *)
(* is read and written under the write lock of mu.                         *)
(***************************************************************************)
NumRegs == 2

\* r.mu.Lock() can return
MuFreeAlways == TRUE

MuFree == regMu = 0

\* "r.mu.Lock()"
RegLock(g) ==
    /\ regG[g].pc = "start"
    /\ MuFree
    /\ regMu' = g
    /\ regG' = [regG EXCEPT ![g].pc = "locked"]
    /\ UNCHANGED <<agentVars, seqVars, limVars, guardVars, regTools>>

\* "name := tool.Name(); _, exists := r.tools[name]"
RegLookup(g) ==
    /\ regG[g].pc = "locked"
    /\ regG' = [regG EXCEPT ![g].pc = "looked",
                            ![g].exists = regTools[regG[g].name] # "none"]
    /\ UNCHANGED <<agentVars, seqVars, limVars, guardVars, regTools, regMu>>

\* "if exists { return fmt.Errorf(...) }; r.tools[name] = tool; return nil"
RegInsert(g) ==
    /\ regG[g].pc = "looked"
    /\ IF regG[g].exists
       THEN /\ regG' = [regG EXCEPT ![g].pc = "unlock",
                                    ![g].err = "already registered"]
            /\ UNCHANGED regTools
       ELSE /\ regTools' = [regTools EXCEPT ![regG[g].name] = regG[g].tool]
            /\ regG' = [regG EXCEPT ![g].pc = "unlock"]
    /\ UNCHANGED <<agentVars, seqVars, limVars, guardVars, regMu>>

\* "defer r.mu.Unlock()": Register returns
RegUnlock(g) ==
    /\ regG[g].pc = "unlock"
    /\ regMu' = 0
    /\ regG' = [regG EXCEPT ![g].pc = "done"]
    /\ UNCHANGED <<agentVars, seqVars, limVars, guardVars, regTools>>

\* a registry that is empty or already holds a tool named "a", and
\* goroutines that each register a tool of their own under "a" or "b"
InitReg ==
    /\ AgentIdle("Registry")
    /\ regTools \in [{"a", "b"} -> {"none"}] \cup {[n \in {"a", "b"} |->
                                            IF n = "a" THEN "t0" ELSE "none"]}
    /\ regMu = 0
    /\ \E names \in [1..NumRegs -> {"a", "b"}] :
        regG = [g \in 1..NumRegs |->
                    [pc |-> "start", name |-> names[g], tool |-> "t" \o ToString(g),
                     exists |-> FALSE, err |-> "nil"]]

NextReg ==
    \E g \in DOMAIN regG : RegLock(g) \/ RegLookup(g) \/ RegInsert(g) \/ RegUnlock(g)

\* concurrent calls of Register on one registry
SpecReg == InitReg /\ [][NextReg]_vars

\* C28: a tool bound to a name, in the initial registry or by a Register
\* that succeeded, stays bound to that name in every step; a Register that
\* has returned succeeded exactly when no tool was bound to its name when
\* it held the lock, and failed leaving the earlier tool bound; and of
\* the Registers of one name that have returned at most one succeeded,
\* and one did unless the name was bound from the start.
C28_RegisteredNamesUnique ==
    /\ [][\A n \in DOMAIN regTools :
            regTools[n] # "none" => regTools'[n] = regTools[n]]_vars
    /\ [](LET done == {g \in DOMAIN regG : regG[g].pc \in {"unlock", "done"}}
              won == {g \in done : regG[g].err = "nil"}
          IN /\ \A g \in won : regTools[regG[g].name] = regG[g].tool
             /\ \A g \in done \ won :
                    /\ regG[g].exists
                    /\ regTools[regG[g].name] \notin {"none", regG[g].tool}
             /\ \A g \in won : \A h \in won : regG[g].name = regG[h].name => g = h
             /\ \A g \in done :
                    \/ regTools[regG[g].name] = "t0"
                    \/ \E h \in won : regG[h].name = regG[g].name)

\* C28 witness: two goroutines registered the same free name, one
\* succeeded and the other got the error, and the winner's tool is bound.
C28_Witness ==
    /\ \A g \in DOMAIN regG : regG[g].pc = "done" /\ regG[g].name = "b"
    /\ \E g \in DOMAIN regG : regG[g].err = "nil" /\ regTools["b"] = regG[g].tool
    /\ \E g \in DOMAIN regG : regG[g].err # "nil"

\* C29 (as claimed): in every request Run sends to the LM, a tool message
\* directly follows an assistant message whose content is that of an LM
\* response that carried at least one tool call.
C29_ToolMessageDirectlyAfterAssistant ==
    LET chats == At("chat")
    IN \A c \in chats :
        LET req == events[c].data.req
        IN \A q \in DOMAIN req :
            req[q].role = "tool" =>
                /\ q > 1
                /\ req[q - 1].role = "assistant"
                /\ \E k \in chats :
                    /\ k < c
                    /\ events[k].data.resp.content = req[q - 1].content
                    /\ Len(events[k].data.resp.toolCalls) > 0

\* C29 (amended): in every request Run sends to the LM, a tool message
\* follows an assistant message whose content is that of an LM response
\* that carried at least one tool call, with nothing but tool messages
\* between the two.
C29_ToolMessagesFollowTheirAssistantTurn ==
    LET chats == At("chat")
    IN \A c \in chats :
        LET req == events[c].data.req
        IN \A q \in DOMAIN req :
            req[q].role = "tool" =>
                \E p \in 1..(q - 1) :
                    /\ req[p].role = "assistant"
                    /\ \A j \in (p + 1)..q : req[j].role = "tool"
                    /\ \E k \in chats :
                        /\ k < c
                        /\ events[k].data.resp.content = req[p].content
                        /\ Len(events[k].data.resp.toolCalls) > 0

\* C29 witness: a request went to the LM in which two tool messages follow
\* one assistant turn.
C29_Witness ==
    \E c \in At("chat") :
        LET req == events[c].data.req
        IN \E q \in 2..Len(req) : req[q].role = "tool" /\ req[q - 1].role = "tool"

\* C30 (as claimed): when a run, Run or RunStream, has returned without
\* error, the after_run hook of every middleware has been invoked exactly
\* once, after every write to memory and before the return.
C30_AfterRunOncePerSuccessfulRun ==
    (Returned /\ err = "nil") =>
        LET hooks == At("afterRun")
        IN /\ \A j \in 1..NumMW : Cardinality({k \in hooks : events[k].i = j}) = 1
           /\ \A k \in hooks :
                /\ \A f \in At("store") : f < k
                /\ \A r \in At("return") : k < r

\* C31: with a timeout that does not parse, Run makes no call to the
\* memory store, to a middleware hook or to the LM, and when it has
\* returned it returned the configuration error, the log being as it was.
C31_BadTimeoutFailsBeforeAnyCall ==
    (cfg.mode = "Run" /\ cfg.timeout = "bad") =>
        /\ events = <<>>
        /\ mem = mem0
        /\ Returned => err = "config"

\* C31 witness: a Run with a memory store bound and a timeout that does not
\* parse has returned the configuration error.
C31_Witness ==
    /\ cfg.mode = "Run" /\ cfg.timeout = "bad" /\ cfg.hasMem
    /\ Returned /\ err = "config"

(***************************************************************************)
(* Server.streamHandler with the MockAgent of the server tests: the agent  *)
(* sends its chunks on the unbuffered channel output and closes it when    *)
(* RunStream returns; the handler turns what it receives into SSE events.  *)
(* http.n is the number of messages the agent has to send, http.next the   *)
(* number it has sent, http.sse the events written to the response.        *)
(***************************************************************************)
\* the handler up to the start of the agent: 405 for another method than
\* POST, 400 for a body that is not JSON, otherwise the SSE headers are
\* set and "go func() { s.agent.RunStream(r.Context(), input, output) }()"
HttpStart ==
    /\ http.hpc = "start"
    /\ http' = IF http.method # "POST"
               THEN [http EXCEPT !.hpc = "returned", !.status = 405]
               ELSE IF ~http.validJSON
               THEN [http EXCEPT !.hpc = "returned", !.status = 400]
               ELSE [http EXCEPT !.hpc = "stream", !.apc = "run", !.status = 200]
    /\ UNCHANGED <<restVars, retry, conv, sess>>

\* "case output <- core.Message{...}" in the agent meets
\* "case message, ok := <-output" in the handler: an "event: message" is
\* written and flushed
HttpMessage ==
    /\ http.hpc = "stream" /\ http.apc = "run"
    /\ ~http.shouldErr /\ http.next < http.n
    /\ http' = [http EXCEPT !.next = @ + 1, !.sse = Append(@, "message")]
    /\ UNCHANGED <<restVars, retry, conv, sess>>

\* MockAgent.RunStream returns, on m.shouldErr, after the last chunk or on
\* "case <-ctx.Done()", and the deferred close(output) runs
MockReturn ==
    /\ http.apc = "run"
    /\ http.shouldErr \/ http.next = http.n \/ http.ctxDone
    /\ http' = [http EXCEPT !.apc = "done", !.closed = TRUE]
    /\ UNCHANGED <<restVars, retry, conv, sess>>

\* "if !ok": the channel is closed, "event: done" is written and the
\* handler returns
HttpClosed ==
    /\ http.hpc = "stream" /\ http.closed
    /\ http' = [http EXCEPT !.hpc = "returned", !.sse = Append(@, "done")]
    /\ UNCHANGED <<restVars, retry, conv, sess>>

\* "case <-r.Context().Done(): return"
HttpCtxDone ==
    /\ http.hpc = "stream" /\ http.ctxDone
    /\ http' = [http EXCEPT !.hpc = "returned"]
    /\ UNCHANGED <<restVars, retry, conv, sess>>

\* the request context is cancelled while the handler is streaming
HttpCancel ==
    /\ http.hpc = "stream" /\ ~http.ctxDone
    /\ http' = [http EXCEPT !.ctxDone = TRUE]
    /\ UNCHANGED <<restVars, retry, conv, sess>>

\* a request; the agent has 1..MaxChunks+1 messages to send (its chunks,
\* or the one result of Run when none are configured) or fails at once
InitHttp ==
    /\ AgentIdle("Server")
    /\ \E m \in {"POST", "GET"}, j \in BOOLEAN, n \in 1..(MaxChunks + 1),
          e \in BOOLEAN :
        http = [hpc |-> "start", method |-> m, validJSON |-> j, status |-> 0,
                apc |-> "idle", n |-> n, shouldErr |-> e, next |-> 0,
                closed |-> FALSE, ctxDone |-> FALSE, sse |-> <<>>]
    /\ retry = <<>> /\ conv = <<>> /\ sess = <<>>

\* one streaming request
SpecHttp ==
    InitHttp /\ [][HttpStart \/ HttpMessage \/ MockReturn \/ HttpClosed
                   \/ HttpCtxDone \/ HttpCancel]_vars

\* C32 (as claimed): when the handler has returned after starting the
\* stream, on completion of the agent's stream or on cancellation of the
\* request, the last event it wrote is "event: done".
C32_DoneEventBeforeReturn ==
    (http.hpc = "returned" /\ http.status = 200) =>
        /\ http.sse # <<>>
        /\ http.sse[Len(http.sse)] = "done"

(***************************************************************************)
(* llm.Execute: the operation is attempted until it succeeds, fails with   *)
(* an error that is not retried, the attempts run out or ctx is cancelled. *)
(* retry.log holds the outcome of every call of the operation: "ok", an    *)
(* LLMError that is retryable or "fatal", or an "other" error, which is    *)
(* retried when its text matches one of config.RetryableErrors.            *)
(***************************************************************************)
MaxMaxRetries == 2

\* Retrier.shouldRetry
ShouldRetryAlways(outcome, attempt) == TRUE

ShouldRetry(outcome, attempt) ==
    IF attempt >= retry.MaxRetries THEN FALSE
    ELSE IF outcome \in {"retryable", "fatal"} THEN outcome = "retryable"
    ELSE retry.matches

\* one pass of the loop up to the wait: the loop condition, the check of
\* ctx, the call of the operation and the decision to retry
RetryAttempt ==
    /\ retry.pc = "loop"
    /\ IF retry.attempt > retry.MaxRetries
       THEN retry' = [retry EXCEPT !.pc = "done", !.ret = "operation failed after"]
       ELSE IF retry.ctxDone
       THEN retry' = [retry EXCEPT !.pc = "done", !.ret = "ctx"]
       ELSE \E o \in {"ok", "retryable", "fatal", "other"} :
            retry' = [retry EXCEPT
                !.log = Append(@, o),
                !.pc = IF o # "ok" /\ ShouldRetry(o, retry.attempt)
                       THEN "wait" ELSE "done",
                !.ret = IF o = "ok" THEN "nil"
                        ELSE IF ShouldRetry(o, retry.attempt) THEN @
                        ELSE IF retry.attempt >= retry.MaxRetries
                        THEN "operation failed after"
                        ELSE o]
    /\ UNCHANGED <<restVars, http, conv, sess>>

\* "select { case <-ctx.Done(): return zero, ctx.Err(); case <-time.After(delay): }"
RetryWait ==
    /\ retry.pc = "wait"
    /\ \/ /\ retry.ctxDone
          /\ retry' = [retry EXCEPT !.pc = "done", !.ret = "ctx"]
       \/ retry' = [retry EXCEPT !.pc = "loop", !.attempt = @ + 1]
    /\ UNCHANGED <<restVars, http, conv, sess>>

\* the caller cancels ctx while Execute is running
RetryCancel ==
    /\ retry.pc # "done" /\ ~retry.ctxDone
    /\ retry' = [retry EXCEPT !.ctxDone = TRUE]
    /\ UNCHANGED <<restVars, http, conv, sess>>

InitRetry ==
    /\ AgentIdle("Retrier")
    /\ \E m \in -1..MaxMaxRetries, b \in BOOLEAN :
        retry = [MaxRetries |-> m, matches |-> b, attempt |-> 0, pc |-> "loop",
                 ctxDone |-> FALSE, log |-> <<>>, ret |-> "none"]
    /\ http = <<>> /\ conv = <<>> /\ sess = <<>>

\* one call of Execute
SpecRetry == InitRetry /\ [][RetryAttempt \/ RetryWait \/ RetryCancel]_vars

\* C33 (as claimed): the operation is called at most MaxRetries + 1 times
\* and never again after a success or an error that is not retryable; and
\* when Execute has returned with every call having failed with a
\* retryable error, there were exactly MaxRetries + 1 calls and the error
\* returned is "operation failed after ...".
C33_RetriesBoundedAndExhausted ==
    LET Retryable(o) == o = "retryable" \/ (o = "other" /\ retry.matches)
    IN /\ Len(retry.log) <= retry.MaxRetries + 1
       /\ \A k \in 1..(Len(retry.log) - 1) : Retryable(retry.log[k])
       /\ (retry.pc = "done" /\ \A k \in DOMAIN retry.log : Retryable(retry.log[k]))
            => /\ Len(retry.log) = retry.MaxRetries + 1
               /\ retry.ret = "operation failed after"

\* C33 (amended): as above, unless ctx was cancelled: Execute then returns
\* ctx's error before the next call of the operation. A success returns
\* nil, and an error that is not retryable is returned as it is when it was
\* not the last attempt allowed.
C33_RetriesBoundedUnlessCancelled ==
    LET Retryable(o) == o = "retryable" \/ (o = "other" /\ retry.matches)
    IN /\ Len(retry.log) <= retry.MaxRetries + 1
       /\ \A k \in 1..(Len(retry.log) - 1) : Retryable(retry.log[k])
       /\ retry.ret = "ctx" => retry.ctxDone
       /\ (retry.pc = "done" /\ retry.ret # "ctx"
            /\ \A k \in DOMAIN retry.log : Retryable(retry.log[k]))
            => /\ Len(retry.log) = retry.MaxRetries + 1
               /\ retry.ret = "operation failed after"
       /\ (retry.pc = "done" /\ retry.log # <<>> /\ retry.ret # "ctx") =>
            LET last == retry.log[Len(retry.log)]
            IN /\ last = "ok" <=> retry.ret = "nil"
               /\ (~Retryable(last) /\ last # "ok"
                   /\ Len(retry.log) <= retry.MaxRetries) => retry.ret = last

\* C33 witness: with MaxRetries = 2 and no cancellation, three calls failed
\* with a retryable error and Execute returned the exhaustion error.
C33_Witness ==
    /\ retry.pc = "done" /\ ~retry.ctxDone
    /\ retry.MaxRetries = 2 /\ Len(retry.log) = 3
    /\ retry.ret = "operation failed after"
    /\ \A k \in DOMAIN retry.log : retry.log[k] = "retryable"

(***************************************************************************)
(* inmemory.ConversationStore: AppendMessage and GetMessages on one        *)
(* session, called by concurrent goroutines.  conv.data is the slice held  *)
(* in cs.data under the session's key, conv.writer and conv.readers are    *)
(* the state of cs.mu (a sync.RWMutex), conv.w[i] is writer goroutine i    *)
(* and conv.r the reader goroutine of the concurrency test.                *)
(***************************************************************************)
NumWriters == 2
MaxAppends == 2
MaxReads == 2

\* AppendMessage without cs.mu.Lock()
ConvLockNoWait(i) ==
    /\ conv # <<>>
    /\ conv.w[i].pc = "idle" /\ conv.w[i].j < MaxAppends
    /\ conv' = [conv EXCEPT !.writer = i,
                            !.w[i].pc = "loaded",
                            !.w[i].local = conv.data]
    /\ UNCHANGED <<restVars, http, retry, sess>>

\* AppendMessage: cs.mu.Lock(), then messages = cs.data[key]
ConvLock(i) ==
    /\ conv # <<>>
    /\ conv.w[i].pc = "idle" /\ conv.w[i].j < MaxAppends
    /\ conv.writer = 0 /\ conv.readers = 0
    /\ conv' = [conv EXCEPT !.writer = i,
                            !.w[i].pc = "loaded",
                            !.w[i].local = conv.data]
    /\ UNCHANGED <<restVars, http, retry, sess>>

\* AppendMessage: cs.data[key] = append(messages, message), deferred Unlock
ConvStore(i) ==
    /\ conv # <<>>
    /\ conv.w[i].pc = "loaded"
    /\ conv' = [conv EXCEPT !.data = Append(conv.w[i].local, <<i, conv.w[i].j + 1>>),
                            !.writer = 0,
                            !.w[i].pc = "idle",
                            !.w[i].j = @ + 1,
                            !.w[i].local = <<>>]
    /\ UNCHANGED <<restVars, http, retry, sess>>

\* GetMessages of the reader goroutine: cs.mu.RLock()
ConvRLock ==
    /\ conv # <<>>
    /\ conv.r.pc = "idle" /\ conv.r.n < MaxReads
    /\ conv.writer = 0
    /\ conv' = [conv EXCEPT !.readers = @ + 1, !.r.pc = "rlocked"]
    /\ UNCHANGED <<restVars, http, retry, sess>>

\* GetMessages of the reader goroutine: return cs.data[key], deferred RUnlock
ConvGet ==
    /\ conv # <<>>
    /\ conv.r.pc = "rlocked"
    /\ conv' = [conv EXCEPT !.readers = @ - 1,
                            !.r.pc = "idle",
                            !.r.n = @ + 1,
                            !.r.got = conv.data]
    /\ UNCHANGED <<restVars, http, retry, sess>>

\* the GetMessages the test makes once every goroutine has finished
ConvFinalGet ==
    /\ conv # <<>>
    /\ ~conv.finalRead
    /\ \A i \in 1..NumWriters : conv.w[i].pc = "idle" /\ conv.w[i].j = MaxAppends
    /\ conv.r.pc = "idle" /\ conv.r.n = MaxReads
    /\ conv' = [conv EXCEPT !.finalRead = TRUE, !.final = conv.data]
    /\ UNCHANGED <<restVars, http, retry, sess>>

InitConv ==
    /\ AgentIdle("ConversationStore")
    /\ conv = [data |-> <<>>, writer |-> 0, readers |-> 0,
               w |-> [i \in 1..NumWriters |-> [pc |-> "idle", j |-> 0, local |-> <<>>]],
               r |-> [pc |-> "idle", n |-> 0, got |-> <<>>],
               finalRead |-> FALSE, final |-> <<>>]

\* NumWriters goroutines appending MaxAppends messages each, one reader
SpecConv ==
    InitConv /\ [][(\E i \in 1..NumWriters : ConvLock(i) \/ ConvStore(i))
                   \/ ConvRLock \/ ConvGet \/ ConvFinalGet]_vars

\* C34: after the N concurrent AppendMessage calls (with a concurrent
\* GetMessages reader) GetMessages returns exactly N messages, and the
\* messages of each goroutine appear in the order it appended them; what the
\* concurrent reader gets is always a prefix of the stored conversation.
C34_AppendMessageAtomic ==
    conv # <<>> =>
        /\ conv.finalRead =>
            /\ Len(conv.final) = NumWriters * MaxAppends
            /\ \A p, q \in DOMAIN conv.final :
                (p < q /\ conv.final[p][1] = conv.final[q][1])
                    => conv.final[p][2] < conv.final[q][2]
        /\ Len(conv.r.got) <= Len(conv.data)
        /\ conv.r.got = SubSeq(conv.data, 1, Len(conv.r.got))

\* both writers interleaved their appends and the reader read in between
C34_Witness ==
    /\ conv # <<>> /\ conv.finalRead
    /\ Len(conv.final) = NumWriters * MaxAppends
    /\ conv.final[1][1] # conv.final[2][1]
    /\ conv.r.got # <<>> /\ conv.r.got # conv.final

\* C35: with a memory store bound, the first LM request of a run is the
\* system prompt, then the history as it was before the run, then the
\* current input, so the current input turn appears in it exactly once.
C35_InputOnceInFirstRequest ==
    (cfg.mode = "Run" /\ cfg.hasMem) =>
        \A k \in DOMAIN events :
            (events[k].op = "chat" /\ events[k].i = 1) =>
                LET req == events[k].data.req
                    turn == LLMMessage(Input.role, Input.content, "")
                IN /\ Cardinality({p \in DOMAIN req : req[p] = turn}) = 1
                   /\ Len(req) = 2 + Len(History(mem0))
                   /\ req[1] = LLMMessage("system", SystemPrompt, "")
                   /\ req[Len(req)] = turn

\* C37: when Run returns an error of the LM call (a provider failure, or
\* the cancellation or deadline of ctx reported by Chat) or of a before-LM
\* hook, the conversation log equals its value at the start of the run.
C37_FailedRunPersistsNothing ==
    (/\ cfg.mode = "Run" /\ Returned
     /\ \/ err = "llm"
        \/ /\ err = "middleware"
           /\ \E k \in DOMAIN events : events[k].op = "beforeLLM" /\ ~events[k].ok)
        => mem = mem0

\* C39 as claimed: every tool Run has executed has its result observed by
\* a later LM call of the same run.
C39_ToolResultsAlwaysObserved ==
    (cfg.mode = "Run" /\ Returned) =>
        LET chats == At("chat")
        IN \A x \in At("exec") : \E c \in chats : events[c].i > events[x].i

\* C39: when Run has returned, the request of every LM call it made after
\* executing a tool carries that tool's result; an executed tool that no LM
\* call observed ran in the last permitted iteration, or the run returned
\* an error.
C39_ToolResultsObservedUnlessLastIteration ==
    (cfg.mode = "Run" /\ Returned) =>
        LET chats == At("chat")
        IN \A x \in At("exec") :
            LET later == {c \in chats : events[c].i > events[x].i}
                toolMsg == LLMMessage("tool", events[x].data.out, events[x].data.id)
            IN /\ \A c \in later :
                    \E q \in DOMAIN events[c].data.req : events[c].data.req[q] = toolMsg
               /\ later = {} => (events[x].i = MaxIterations \/ err # "nil")

\* a successful run of two iterations: the tool of the first was observed
\* by the second LM call, the tool of the second by none
C39_Witness ==
    /\ cfg.mode = "Run" /\ Returned /\ err = "nil" /\ NumChats = 2
    /\ \E x \in At("exec") : events[x].i = 1
    /\ \E x \in At("exec") : events[x].i = 2

(***************************************************************************)
(* RunStream with its goroutines scheduled: the goroutine of RunStream and *)
(* the worker goroutine running the provider's Stream each take their next *)
(* step when it stays possible.  Nothing obliges the caller to cancel ctx  *)
(* or the consumer to receive from the sink.                               *)
(***************************************************************************)
SpecStreamLive ==
    /\ SpecStream
    /\ WF_vars(SStoreInput \/ SBuildMessages \/ SBeforeLLMCall \/ SpawnWorker
               \/ RecvChunk \/ RecvClosed \/ RecvErr \/ RecvCtxDone \/ DeferClose)
    /\ WF_vars(ProvAbort \/ ProvClose \/ ProvReturn)

\* C38: once the provider's Stream call has returned, RunStream eventually
\* returns with the sink closed, unless ctx is cancelled meanwhile.
C38_ReturnsAfterStreamReturned ==
    (cfg.mode = "RunStream" /\ wpc = "exited")
        ~> ((pc = "done" /\ sinkCloses = 1) \/ ctxDone)

\* C40: Config.Timeout applies to RunStream as it does to Run: with an
\* unparsable value RunStream fails with the configuration error before any
\* memory or LM interaction.
C40_BadTimeoutFailsRunStream ==
    (cfg.mode = "RunStream" /\ cfg.timeout = "bad") =>
        /\ events = <<>>
        /\ mem = mem0
        /\ Returned => err = "config"

(***************************************************************************)
(* Consecutive Runs of one ChatAgent whose only middleware is a            *)
(* SimpleGuardrails and whose memory store is shared by the runs.          *)
(* sess.store is the []Message under "conversation", sess.log has one      *)
(* entry per finished run: its input, the error it returned and the        *)
(* request its Chat call received (<<>> when no call was made).            *)
(***************************************************************************)
MaxSessRuns == 2

\* "Store input message in memory" on a store that does not fail
SessStoreInput ==
    /\ sess # <<>>
    /\ sess.pc = "start" /\ Len(sess.log) < MaxSessRuns
    /\ \E c \in {<<"a">>, <<"b">>, <<"A", "b">>, <<"b", "b">>} :
        sess' = [sess EXCEPT !.input = Message("user", c),
                             !.store = Append(@, Message("user", c)),
                             !.pc = "build"]
    /\ UNCHANGED <<restVars, http, retry, conv>>

\* "Get conversation history" and "Prepare messages for LLM"
SessBuildMessages ==
    /\ sess # <<>>
    /\ sess.pc = "build"
    /\ sess' = [sess EXCEPT
           !.req = <<LLMMessage("system", SystemPrompt, "")>>
                   \o [k \in 1..Len(sess.store) |->
                          LLMMessage(sess.store[k].role, sess.store[k].content, "")]
                   \o <<LLMMessage(sess.input.role, sess.input.content, "")>>,
           !.pc = "beforeLLM"]
    /\ UNCHANGED <<restVars, http, retry, conv>>

\* "Middleware: before LLM": the guardrail's error is returned
SessBeforeLLMCall ==
    /\ sess # <<>>
    /\ sess.pc = "beforeLLM"
    /\ LET r == GuardrailCheck(sess.guard, sess.req)
       IN IF r.err # "nil"
          THEN sess' = [sess EXCEPT
                   !.log = Append(@, [input |-> sess.input.content, err |-> r.err,
                                      req |-> <<>>]),
                   !.pc = "start"]
          ELSE sess' = [sess EXCEPT !.req = r.req, !.pc = "chat"]
    /\ UNCHANGED <<restVars, http, retry, conv>>

\* a.Model.Chat(ctx, req), "Store response in memory", return
SessChat ==
    /\ sess # <<>>
    /\ sess.pc = "chat"
    /\ sess' = [sess EXCEPT
           !.store = Append(@, Message("assistant", <<"o", "k">>)),
           !.log = Append(@, [input |-> sess.input.content, err |-> "nil",
                              req |-> sess.req]),
           !.pc = "start"]
    /\ UNCHANGED <<restVars, http, retry, conv>>

InitSess ==
    /\ AgentIdle("Session")
    /\ \E n \in {0, 1}, d \in {<< <<"a">> >>, << <<>>, <<"b", "b">> >>} :
        sess = [guard |-> [MaxInputChars |-> n, DenySubstrings |-> d,
                           AllowSubstrings |-> <<>>],
                store |-> <<>>, input |-> Message("", <<>>), req |-> <<>>,
                log |-> <<>>, pc |-> "start"]

\* up to MaxSessRuns calls of Run, one after the other
SpecSess ==
    InitSess /\ [][SessStoreInput \/ SessBuildMessages \/ SessBeforeLLMCall \/ SessChat]_vars

\* C36: after a Run whose input the deny list blocked, no LM request of a
\* later run on the same memory store holds a message with that content.
C36_BlockedContentNeverReachesLM ==
    sess # <<>> =>
        \A j, k \in DOMAIN sess.log :
            (j < k /\ sess.log[j].err = "request blocked by guardrails") =>
                \A p \in DOMAIN sess.log[k].req :
                    sess.log[k].req[p].role = "user"
                        => sess.log[k].req[p].content # sess.log[j].input

=============================================================================
